---------------------------- MODULE Spec2Model ----------------------------
(***************************************************************************)
(* cmtr: the context budgeting and selection engine.                       *)
(*                                                                         *)
(*   Spec     _build_filtered_diff (src/cmtr/core.py): exclusion filter,   *)
(*            large-diff pre-filter, packing loop, exclusion report and    *)
(*            final truncation pass.                                       *)
(*   LogSpec  gather_log_context (src/cmtr/git.py): primary scope, parse   *)
(*            of the git log export, deduplication and backfill.           *)
(*   CollectSpec  collect_context (src/cmtr/core.py): the git queries it   *)
(*            issues, the errors it raises, and its calls of the two       *)
(*            functions above.                                             *)
(*   FuncSpec the pure helpers, each applied once to bounded inputs.       *)
(*                                                                         *)
(* A Python str is a sequence of one-character strings.  "U2", "U3" and    *)
(* "U4" stand for one character whose UTF-8 encoding takes 2, 3 and 4      *)
(* bytes; every other character is ASCII.  "\n" is the line break.         *)
(***************************************************************************)
EXTENDS Integers, Sequences, FiniteSets, TLC

VARIABLES
    \* ---- _build_filtered_diff ----
    pc,                  \* position in _build_filtered_diff
    config,              \* Config: max_patch_lines, max_diff_bytes
    entries,             \* result of get_diff_numstat
    excluded,            \* list of (path, reason)
    candidates,          \* entries that survived the filters
    queue,               \* sorted(candidates) not yet visited by the packing loop
    total_changed_lines,
    large_diff,
    diff_chunks,
    used_lines,
    used_bytes,
    used_tokens,
    diff_was_filtered,
    diff_text,           \* text before the final truncation pass, then the result
    diff_truncated,
    assembled,           \* diff_text as handed to _truncate_diff (core.py:326)
    fetched,             \* paths handed to get_diff_patch(paths=[path])
    accepted,            \* paths whose patch was appended to diff_chunks
    skipped,             \* paths whose patch was empty after trimming
    patch,               \* the patch of the current loop iteration (core.py:294)
    \* ---- gather_log_context ----
    lpc,                 \* position in gather_log_context
    staged_files,
    max_paths,
    max_entries,
    history,             \* the repository's commits, most recent first
    target_entries,
    log_paths,
    seen,
    primary_entries,
    repo_entries,
    contexts,
    log_queries,         \* the git log queries issued: <<scope, max_count>>
    \* ---- collect_context ----
    cpc,                 \* position in collect_context
    ctx_staged_files,    \* staged_files of collect_context
    git_calls,           \* the git queries collect_context itself issued
    raised,              \* the exception that left collect_context
    failed_query,        \* the query whose GitError left collect_context
    diff_result,         \* (diff_patch, diff_filtered, diff_truncated)
    has_commit_history,
    ctx_log_paths,       \* log_paths of collect_context
    log_contexts,
    \* ---- one application of a pure helper ----
    fn,                  \* the helper applied
    args,                \* its arguments
    result,              \* its return value
    applied              \* whether it has returned

diffVars == <<pc, config, entries, excluded, candidates, queue,
              total_changed_lines, large_diff, diff_chunks, used_lines,
              used_bytes, used_tokens, diff_was_filtered, diff_text,
              diff_truncated, assembled, fetched, accepted, skipped, patch>>

logVars == <<lpc, staged_files, max_paths, max_entries, history,
             target_entries, log_paths, seen, primary_entries, repo_entries,
             contexts, log_queries>>

collectVars == <<cpc, ctx_staged_files, git_calls, raised, failed_query,
                 diff_result, has_commit_history, ctx_log_paths, log_contexts>>

funcVars == <<fn, args, result, applied>>

vars == <<diffVars, logVars, collectVars, funcVars>>

-----------------------------------------------------------------------------
(* Python built-ins on str and list                                        *)

NL == "\n"

\* Python's None (DiffNumStat.added / deleted of a binary entry).
None == -1

Max(a, b) == IF a >= b THEN a ELSE b

Min(a, b) == IF a <= b THEN a ELSE b

\* math.ceil(n / d) for n >= 0, d > 0
CeilDiv(n, d) == (n + d - 1) \div d

\* number of bytes of one character's UTF-8 encoding
Utf8Width(c) ==
    IF c = "U2" THEN 2 ELSE IF c = "U3" THEN 3 ELSE IF c = "U4" THEN 4 ELSE 1

\* str.encode("utf-8"): byte <<c, 0>> is the lead (or only) byte of c,
\* <<c, k>> with k > 0 its k-th continuation byte (10xxxxxx).
RECURSIVE Encode(_)
Encode(text) ==
    IF text = <<>> THEN <<>>
    ELSE IF Len(text) = 1
    THEN [k \in 1..Utf8Width(text[1]) |-> <<text[1], k - 1>>]
    ELSE LET half == Len(text) \div 2
         IN  Encode(SubSeq(text, 1, half))
             \o Encode(SubSeq(text, half + 1, Len(text)))

\* (byte & 0b1100_0000) == 0b1000_0000
IsContinuation(byte) == byte[2] > 0

\* bytes.decode("utf-8", errors="ignore"): bytes that do not form a whole
\* character are dropped.
DecodeIgnore(bytes) ==
    LET whole(i) ==
            /\ bytes[i][2] = 0
            /\ i + Utf8Width(bytes[i][1]) - 1 <= Len(bytes)
            /\ \A k \in 1..Utf8Width(bytes[i][1]) :
                  bytes[i + k - 1] = <<bytes[i][1], k - 1>>
        starts == SelectSeq([i \in 1..Len(bytes) |-> i], whole)
    IN  [j \in 1..Len(starts) |-> bytes[starts[j]][1]]

\* len(text.encode("utf-8"))
Utf8Len(text) == Len(Encode(text))

\* str.split(sep) for a one-symbol separator
Split(text, sep) ==
    LET at == SelectSeq([i \in 1..Len(text) |-> i], LAMBDA i : text[i] = sep)
        from(k) == IF k = 1 THEN 1 ELSE at[k - 1] + 1
        to(k) == IF k = Len(at) + 1 THEN Len(text) ELSE at[k] - 1
    IN  [k \in 1..(Len(at) + 1) |-> SubSeq(text, from(k), to(k))]

\* str.splitlines(): a final line break opens no further line
SplitLines(text) ==
    LET parts == Split(text, NL)
    IN  IF parts[Len(parts)] = <<>>
        THEN SubSeq(parts, 1, Len(parts) - 1)
        ELSE parts

\* sep.join(parts)
RECURSIVE Join(_, _)
Join(parts, sep) ==
    IF parts = <<>> THEN <<>>
    ELSE IF Len(parts) = 1 THEN parts[1]
    ELSE parts[1] \o sep \o Join(Tail(parts), sep)

\* str.rstrip(chars) / str.lstrip(chars), chars given as a set
RStripSet(text, chars) ==
    LET keep == {i \in 1..Len(text) : text[i] \notin chars}
    IN  IF keep = {} THEN <<>>
        ELSE SubSeq(text, 1, CHOOSE i \in keep : \A j \in keep : j <= i)

LStripSet(text, chars) ==
    LET keep == {i \in 1..Len(text) : text[i] \notin chars}
    IN  IF keep = {} THEN <<>>
        ELSE SubSeq(text, CHOOSE i \in keep : \A j \in keep : i <= j, Len(text))

Whitespace == {" ", "\n", "\t"}

\* str.strip()
Strip(text) == LStripSet(RStripSet(text, Whitespace), Whitespace)

\* str(n) for n >= 0
DigitChar(d) == <<"0", "1", "2", "3", "4", "5", "6", "7", "8", "9">>[d + 1]

RECURSIVE DecimalStr(_)
DecimalStr(n) ==
    IF n < 10 THEN <<DigitChar(n)>>
    ELSE DecimalStr(n \div 10) \o <<DigitChar(n % 10)>>

\* code point order of the characters that occur in paths
Alphabet ==
    <<"-", ".", "/", "0", "1", "2", "3", "4", "5", "6", "7", "8", "9",
      "C", "G", "P",
      "a", "b", "c", "d", "e", "f", "g", "h", "i", "j", "k", "l", "m",
      "n", "o", "p", "q", "r", "s", "t", "u", "v", "w", "x", "y", "z">>

CodePoint(c) == CHOOSE i \in 1..Len(Alphabet) : Alphabet[i] = c

\* s < t for Python str
RECURSIVE StrLess(_, _)
StrLess(s, t) ==
    IF t = <<>> THEN FALSE
    ELSE IF s = <<>> THEN TRUE
    ELSE IF Head(s) = Head(t) THEN StrLess(Tail(s), Tail(t))
    ELSE CodePoint(Head(s)) < CodePoint(Head(t))

\* sum of a sequence of integers
RECURSIVE SumSeq(_)
SumSeq(s) == IF s = <<>> THEN 0 ELSE Head(s) + SumSeq(Tail(s))

\* the elements of a sequence
Range(s) == {s[i] : i \in 1..Len(s)}


-----------------------------------------------------------------------------
(* src/cmtr/core.py: the diff budget allocator                             *)

HARD_EXCLUDED_BASENAMES ==
    { <<"b", "u", "n", ".", "l", "o", "c", "k", "b">>,
      <<"C", "a", "r", "g", "o", ".", "l", "o", "c", "k">>,
      <<"c", "o", "m", "p", "o", "s", "e", "r", ".", "l", "o", "c", "k">>,
      <<"G", "e", "m", "f", "i", "l", "e", ".", "l", "o", "c", "k">>,
      <<"g", "o", ".", "s", "u", "m">>,
      <<"g", "o", ".", "w", "o", "r", "k", ".", "s", "u", "m">>,
      <<"m", "i", "x", ".", "l", "o", "c", "k">>,
      <<"n", "p", "m", "-", "s", "h", "r", "i", "n", "k", "w", "r", "a", "p", ".", "j", "s", "o", "n">>,
      <<"p", "a", "c", "k", "a", "g", "e", "-", "l", "o", "c", "k", ".", "j", "s", "o", "n">>,
      <<"P", "a", "c", "k", "a", "g", "e", ".", "r", "e", "s", "o", "l", "v", "e", "d">>,
      <<"P", "i", "p", "f", "i", "l", "e", ".", "l", "o", "c", "k">>,
      <<"p", "n", "p", "m", "-", "l", "o", "c", "k", ".", "y", "a", "m", "l">>,
      <<"p", "n", "p", "m", "-", "l", "o", "c", "k", ".", "y", "m", "l">>,
      <<"p", "o", "e", "t", "r", "y", ".", "l", "o", "c", "k">>,
      <<"p", "d", "m", ".", "l", "o", "c", "k">>,
      <<"p", "u", "b", "s", "p", "e", "c", ".", "l", "o", "c", "k">>,
      <<"u", "v", ".", "l", "o", "c", "k">>,
      <<"y", "a", "r", "n", ".", "l", "o", "c", "k">> }

MAX_EXCLUDED_LIST == 50

TOKEN_CHARS == 4

\* the floor of per_file_line_limit (core.py:273)
MIN_PER_FILE_LINE_LIMIT == 200

\* [part for part in path.split("/") if part]
split_parts(path) == SelectSeq(Split(path, "/"), LAMBDA part : part # <<>>)

\* Path(path).name: the last component of the path
PathName(path) ==
    LET parts == split_parts(path)
    IN  IF parts = <<>> THEN <<>> ELSE parts[Len(parts)]

is_hard_excluded(path) == PathName(path) \in HARD_EXCLUDED_BASENAMES

\* x or 0
OrZero(x) == IF x = None THEN 0 ELSE x

\* (entry.added or 0) + (entry.deleted or 0)
ChangedLines(entry) == OrZero(entry.added) + OrZero(entry.deleted)

\* the reason strings of core.py:260, 263, 283, 311
LockReason == <<"e", "x", "c", "l", "u", "d", "e", "d", " ", "l", "o", "c", "k", " ", "f", "i", "l", "e">>

BinaryReason == <<"b", "i", "n", "a", "r", "y", " ", "f", "i", "l", "e">>

LargeReason(changed_lines) ==
    <<"l", "a", "r", "g", "e", " ", "d", "i", "f", "f", " ", "(">>
    \o DecimalStr(changed_lines) \o <<" ", "l", "i", "n", "e", "s", ")">>

BudgetReason(changed_lines) ==
    <<"d", "i", "f", "f", " ", "b", "u", "d", "g", "e", "t", " ", "(">>
    \o DecimalStr(changed_lines) \o <<" ", "l", "i", "n", "e", "s", ")">>

\* a variant that counts characters instead of bytes
truncate_bytes_by_chars(text, max_bytes) ==
    IF Utf8Len(text) <= max_bytes THEN text
    ELSE SubSeq(text, 1, Min(Len(text), max_bytes))

truncate_bytes(text, max_bytes) ==
    LET encoded == Encode(text)
    IN  IF Len(encoded) <= max_bytes THEN text
        ELSE DecodeIgnore(
                 RStripSet(SubSeq(encoded, 1, max_bytes),
                           {b \in Range(encoded) : IsContinuation(b)}))

\* a variant that keeps one line too many (lines[:max_lines + 1])
truncate_diff_one_line_over(diff, max_bytes, max_lines) ==
    LET lines == SplitLines(diff)
        cut   == max_lines > 0 /\ Len(lines) > max_lines
        text  == IF cut
                 THEN Join(SubSeq(lines, 1, Min(Len(lines), max_lines + 1)), <<NL>>)
                 ELSE diff
        clamp == max_bytes > 0 /\ Utf8Len(text) > max_bytes
    IN  <<IF clamp THEN truncate_bytes(text, max_bytes) ELSE text,
          cut \/ clamp>>

\* returns <<text, truncated>>
truncate_diff(diff, max_bytes, max_lines) ==
    LET lines == SplitLines(diff)
        cut   == max_lines > 0 /\ Len(lines) > max_lines
        text  == IF cut THEN Join(SubSeq(lines, 1, max_lines), <<NL>>) ELSE diff
        clamp == max_bytes > 0 /\ Utf8Len(text) > max_bytes
    IN  <<IF clamp THEN truncate_bytes(text, max_bytes) ELSE text,
          cut \/ clamp>>

estimate_tokens(text) ==
    IF text = <<>> THEN 0 ELSE CeilDiv(Len(text), TOKEN_CHARS)

token_budget_from_bytes(max_diff_bytes) ==
    IF max_diff_bytes <= 0 THEN 0 ELSE CeilDiv(max_diff_bytes, TOKEN_CHARS)

\* a variant whose key is -(added + deleted) alone
diff_entry_sort_key_less_no_tiebreak(a, b) ==
    ChangedLines(a) > ChangedLines(b)

\* key(a) < key(b) for key = (-(added + deleted), path)
diff_entry_sort_key_less(a, b) ==
    \/ ChangedLines(a) > ChangedLines(b)
    \/ ChangedLines(a) = ChangedLines(b) /\ StrLess(a.path, b.path)

\* sorted(seq, key=_diff_entry_sort_key): a stable insertion sort
RECURSIVE SortedInsert(_, _)
SortedInsert(sorted, entry) ==
    IF sorted = <<>> THEN <<entry>>
    ELSE LET last == sorted[Len(sorted)]
         IN  IF diff_entry_sort_key_less(entry, last)
             THEN SortedInsert(SubSeq(sorted, 1, Len(sorted) - 1), entry)
                  \o <<last>>
             ELSE sorted \o <<entry>>

RECURSIVE SortedEntries(_)
SortedEntries(seq) ==
    IF seq = <<>> THEN <<>>
    ELSE SortedInsert(SortedEntries(SubSeq(seq, 1, Len(seq) - 1)),
                      seq[Len(seq)])

\* a variant that tests the new patch alone, without the running totals
would_exceed_budget_ignores_used(u_lines, new_lines, u_bytes, new_bytes, u_tokens, new_tokens, cfg) ==
    \/ cfg.max_patch_lines > 0 /\ new_lines > cfg.max_patch_lines
    \/ cfg.max_diff_bytes > 0 /\ new_bytes > cfg.max_diff_bytes
    \/ LET token_budget == token_budget_from_bytes(cfg.max_diff_bytes)
       IN  token_budget > 0 /\ new_tokens > token_budget

\* a variant that forgets the line cap
would_exceed_budget_no_line_cap(u_lines, new_lines, u_bytes, new_bytes, u_tokens, new_tokens, cfg) ==
    \/ cfg.max_diff_bytes > 0 /\ u_bytes + new_bytes > cfg.max_diff_bytes
    \/ LET token_budget == token_budget_from_bytes(cfg.max_diff_bytes)
       IN  token_budget > 0 /\ u_tokens + new_tokens > token_budget

would_exceed_budget(u_lines, new_lines, u_bytes, new_bytes, u_tokens, new_tokens, cfg) ==
    \/ cfg.max_patch_lines > 0 /\ u_lines + new_lines > cfg.max_patch_lines
    \/ cfg.max_diff_bytes > 0 /\ u_bytes + new_bytes > cfg.max_diff_bytes
    \/ LET token_budget == token_budget_from_bytes(cfg.max_diff_bytes)
       IN  token_budget > 0 /\ u_tokens + new_tokens > token_budget

\* a variant that lists every record
format_excluded_files_no_cap(excl) ==
    LET header == <<"E", "x", "c", "l", "u", "d", "e", "d", " ", "f", "i", "l", "e", "s", " ", "f", "r", "o", "m", " ", "d", "i", "f", "f", " ", "c", "o", "n", "t", "e", "x", "t", ":">>
        item(e) == <<"-", " ">> \o e[1] \o <<" ", "(">> \o e[2] \o <<")">>
    IN  Join(<<header>> \o [i \in 1..Len(excl) |-> item(excl[i])], <<NL>>)

format_excluded_files(excl) ==
    LET shown  == SubSeq(excl, 1, Min(Len(excl), MAX_EXCLUDED_LIST))
        header == <<"E", "x", "c", "l", "u", "d", "e", "d", " ", "f", "i", "l", "e", "s", " ", "f", "r", "o", "m", " ", "d", "i", "f", "f", " ", "c", "o", "n", "t", "e", "x", "t", ":">>
        item(e) == <<"-", " ">> \o e[1] \o <<" ", "(">> \o e[2] \o <<")">>
        remaining == Len(excl) - MAX_EXCLUDED_LIST
        more == IF remaining > 0
                THEN << <<"-", " ", ".", ".", ".", " ", "a", "n", "d", " ">>
                        \o DecimalStr(remaining) \o <<" ", "m", "o", "r", "e">> >>
                ELSE <<>>
    IN  Join(<<header>> \o [i \in 1..Len(shown) |-> item(shown[i])] \o more,
             <<NL>>)

\* a variant that drops binary entries without recording them
HardExcluded_locks_only(ents) ==
    LET sel == SelectSeq(ents, LAMBDA e : is_hard_excluded(e.path))
    IN  [i \in 1..Len(sel) |-> <<sel[i].path, LockReason>>]

\* core.py:258-265: the lock-file and binary exclusions, in inventory order
HardExcluded(ents) ==
    LET sel == SelectSeq(ents, LAMBDA e : is_hard_excluded(e.path) \/ e.is_binary)
    IN  [i \in 1..Len(sel) |->
            IF is_hard_excluded(sel[i].path)
            THEN <<sel[i].path, LockReason>>
            ELSE <<sel[i].path, BinaryReason>>]

\* a variant without the two continue statements
SurvivingCandidates_no_continue(ents) == ents

SurvivingCandidates(ents) ==
    SelectSeq(ents, LAMBDA e : ~is_hard_excluded(e.path) /\ ~e.is_binary)

\* core.py:266-268
TotalChangedLines(cands) ==
    SumSeq([i \in 1..Len(cands) |-> ChangedLines(cands[i])])

\* a variant without the test max_patch_lines > 0
IsLargeDiff_ignores_disabled(cands, cfg) ==
    TotalChangedLines(cands) > cfg.max_patch_lines

\* core.py:269-271
IsLargeDiff(cands, cfg) ==
    cfg.max_patch_lines > 0 /\ TotalChangedLines(cands) > cfg.max_patch_lines

\* a variant without the floor of 200
per_file_line_limit_no_floor(cfg) ==
    IF cfg.max_patch_lines > 0
    THEN cfg.max_patch_lines \div 2
    ELSE MIN_PER_FILE_LINE_LIMIT

\* core.py:272-276
per_file_line_limit(cfg) ==
    IF cfg.max_patch_lines > 0
    THEN Max(MIN_PER_FILE_LINE_LIMIT, cfg.max_patch_lines \div 2)
    ELSE MIN_PER_FILE_LINE_LIMIT

\* core.py:279-285: the (path, reason) records of the large-diff pre-filter
LargeExcluded(cands, cfg) ==
    LET dropped == SelectSeq(cands, LAMBDA e :
                       ChangedLines(e) >= per_file_line_limit(cfg))
    IN  [i \in 1..Len(dropped) |->
            <<dropped[i].path, LargeReason(ChangedLines(dropped[i]))>>]

\* a variant that records the large files but keeps them as candidates
LargeFiltered_keeps_all(cands, cfg) == cands

\* core.py:278-287: filtered, the candidates under the per-file limit
LargeFiltered(cands, cfg) ==
    SelectSeq(cands, LAMBDA e : ChangedLines(e) < per_file_line_limit(cfg))

\* a variant that starts the flag at False
InitialDiffWasFiltered_false(excl) == FALSE

\* core.py:292: diff_was_filtered = bool(excluded)
InitialDiffWasFiltered(excl) == excl # <<>>

\* a variant that takes every patch for non-empty
IsEmptyPatch_never(text) == FALSE

\* core.py:295: not patch.strip()
IsEmptyPatch(text) == Strip(text) = <<>>

\* a variant that renders the report only when no patch was accepted
AssembleText_report_only_alone(chunks, excl) ==
    LET joined == Strip(Join(SelectSeq(chunks, LAMBDA c : c # <<>>),
                             <<NL, NL>>))
    IN  IF excl # <<>> /\ joined = <<>>
        THEN format_excluded_files(excl)
        ELSE joined

\* core.py:319-325: the joined patches, then the exclusion report
AssembleText(chunks, excl) ==
    LET joined == Strip(Join(SelectSeq(chunks, LAMBDA c : c # <<>>),
                             <<NL, NL>>))
    IN  IF excl # <<>>
        THEN IF joined # <<>>
             THEN joined \o <<NL, NL>> \o format_excluded_files(excl)
             ELSE format_excluded_files(excl)
        ELSE joined


-----------------------------------------------------------------------------
(* Inputs of _build_filtered_diff: the config and what git answers         *)

\* the longest inventory git diff --cached --numstat reports
MaxEntries == 3

\* DiffNumStat records (git.py:23-29); a binary entry has no counts
Entry(path, added, deleted) ==
    [path |-> path, added |-> added, deleted |-> deleted,
     is_binary |-> (added = None \/ deleted = None)]

NumstatPool ==
    { Entry(<<"a", "/", "x">>, 2, 1),
      Entry(<<"a", "/", "y">>, 120, 81),
      Entry(<<"b">>, 200, 0),
      Entry(<<"b">>, 3, 0),
      Entry(<<"a", "/", "g", "o", ".", "s", "u", "m">>, 300, 0),
      Entry(<<"i", ".", "p", "n", "g">>, None, None) }

\* every ChangeEntry.path is unique within one inventory
UniquePaths(inv) ==
    \A i, j \in 1..Len(inv) : inv[i].path = inv[j].path => i = j

Inventories ==
    {inv \in UNION {[1..n -> NumstatPool] : n \in 0..MaxEntries} :
        UniquePaths(inv)}

\* what git diff --cached [-- path] may print
PatchPool ==
    { <<>>,
      <<" ", NL>>,
      <<"a", NL>>,
      <<"a", NL, "U2", "b", NL>>,
      <<"U3", "U3", NL, "c", "d", "e", NL, NL, "f", NL>> }

MaxPatchLinesChoices == {0, 2, 3, 403}

MaxDiffBytesChoices == {0, 6, 50, 12000}

\* configurations with a cap below zero
NegativeCapConfigs ==
    { [max_patch_lines |-> -1, max_diff_bytes |-> -1],
      [max_patch_lines |-> -1, max_diff_bytes |-> 50],
      [max_patch_lines |-> 3, max_diff_bytes |-> -1] }

Configs ==
    [max_patch_lines : MaxPatchLinesChoices, max_diff_bytes : MaxDiffBytesChoices]
    \cup NegativeCapConfigs

-----------------------------------------------------------------------------
(* _build_filtered_diff as a state machine                                 *)

\* the locals of _build_filtered_diff before its first statement
DiffFresh ==
    /\ entries = <<>>
    /\ excluded = <<>>
    /\ candidates = <<>>
    /\ queue = <<>>
    /\ total_changed_lines = 0
    /\ large_diff = FALSE
    /\ diff_chunks = <<>>
    /\ used_lines = 0
    /\ used_bytes = 0
    /\ used_tokens = 0
    /\ diff_was_filtered = FALSE
    /\ diff_text = <<>>
    /\ diff_truncated = FALSE
    /\ assembled = <<>>
    /\ fetched = {}
    /\ accepted = <<>>
    /\ skipped = {}
    /\ patch = <<>>

DiffInit ==
    /\ pc = "numstat"
    /\ config \in Configs
    /\ DiffFresh

\* _build_filtered_diff is not running
DiffIdle ==
    /\ pc = "idle"
    /\ config = [max_patch_lines |-> 0, max_diff_bytes |-> 0]
    /\ DiffFresh

\* the locals of gather_log_context before its first statement
LogFresh ==
    /\ target_entries = 0
    /\ log_paths = <<>>
    /\ seen = {}
    /\ primary_entries = <<>>
    /\ repo_entries = <<>>
    /\ contexts = <<>>
    /\ log_queries = <<>>

\* gather_log_context is not running
LogIdle ==
    /\ lpc = "idle"
    /\ staged_files = <<>>
    /\ max_paths = 0
    /\ max_entries = 0
    /\ history = <<>>
    /\ LogFresh

\* collect_context is not running
CollectIdle ==
    /\ cpc = "idle"
    /\ ctx_staged_files = <<>>
    /\ git_calls = <<>>
    /\ raised = "none"
    /\ failed_query = "none"
    /\ diff_result = <<>>
    /\ has_commit_history = FALSE
    /\ ctx_log_paths = <<>>
    /\ log_contexts = <<>>

\* no helper is being applied
FuncIdle ==
    /\ fn = "none"
    /\ args = <<>>
    /\ result = <<>>
    /\ applied = FALSE

Init == DiffInit /\ LogIdle /\ CollectIdle /\ FuncIdle

\* core.py:247-248: entries = get_diff_numstat(repo_root)
GetNumstat ==
    /\ pc = "numstat"
    /\ \E inv \in Inventories :
          /\ entries' = inv
          /\ pc' = IF inv = <<>> THEN "raw" ELSE "exclude"
    /\ UNCHANGED <<config, excluded, candidates, queue, total_changed_lines,
                   large_diff, diff_chunks, used_lines, used_bytes,
                   used_tokens, diff_was_filtered, diff_text, diff_truncated,
                   assembled, fetched, accepted, skipped, patch>>
    /\ UNCHANGED <<logVars, collectVars, funcVars>>

\* core.py:248-255: no numstat entries, the whole staged patch is clamped
RawDiff ==
    /\ pc = "raw"
    /\ \E diff_patch_raw \in PatchPool :
          LET r == truncate_diff(diff_patch_raw, config.max_diff_bytes,
                                 config.max_patch_lines)
          IN  /\ assembled' = diff_patch_raw
              /\ diff_text' = r[1]
              /\ diff_truncated' = r[2]
              /\ diff_was_filtered' = FALSE
    /\ pc' = "done"
    /\ UNCHANGED <<config, entries, excluded, candidates, queue,
                   total_changed_lines, large_diff, diff_chunks, used_lines,
                   used_bytes, used_tokens, fetched, accepted, skipped, patch>>
    /\ UNCHANGED <<logVars, collectVars, funcVars>>

\* core.py:256-265: lock files and binaries leave the candidate set
ExcludeHard ==
    /\ pc = "exclude"
    /\ excluded' = HardExcluded(entries)
    /\ candidates' = SurvivingCandidates(entries)
    /\ pc' = "large"
    /\ UNCHANGED <<config, entries, queue, total_changed_lines, large_diff,
                   diff_chunks, used_lines, used_bytes, used_tokens,
                   diff_was_filtered, diff_text, diff_truncated, assembled,
                   fetched, accepted, skipped, patch>>
    /\ UNCHANGED <<logVars, collectVars, funcVars>>

\* core.py:266-293: the large-diff pre-filter, then the sort
FilterLarge ==
    /\ pc = "large"
    /\ LET large == IsLargeDiff(candidates, config)
       IN  /\ total_changed_lines' = TotalChangedLines(candidates)
           /\ large_diff' = large
           /\ excluded' = IF large
                          THEN excluded \o LargeExcluded(candidates, config)
                          ELSE excluded
           /\ candidates' = IF large
                            THEN LargeFiltered(candidates, config)
                            ELSE candidates
           /\ queue' = SortedEntries(candidates')
           /\ diff_was_filtered' = InitialDiffWasFiltered(excluded')
    /\ diff_chunks' = <<>>
    /\ used_lines' = 0
    /\ used_bytes' = 0
    /\ used_tokens' = 0
    /\ pc' = "pack"
    /\ UNCHANGED <<config, entries, diff_text, diff_truncated, assembled,
                   fetched, accepted, skipped, patch>>
    /\ UNCHANGED <<logVars, collectVars, funcVars>>

\* core.py:293-318: one iteration of the packing loop
PackStep ==
    /\ pc = "pack"
    /\ queue # <<>>
    /\ LET entry == Head(queue)
       IN  \E raw \in PatchPool :
             LET stripped == RStripSet(raw, {NL})
                 patch_lines == Len(SplitLines(stripped))
                 patch_bytes == Utf8Len(stripped)
                 patch_tokens == estimate_tokens(stripped)
             IN  /\ fetched' = fetched \cup {entry.path}
                 /\ patch' = stripped
                 /\ IF IsEmptyPatch(stripped)
                    THEN /\ skipped' = skipped \cup {entry.path}
                         /\ UNCHANGED <<excluded, diff_was_filtered,
                                        diff_chunks, accepted, used_lines,
                                        used_bytes, used_tokens>>
                    ELSE IF would_exceed_budget(used_lines, patch_lines,
                                                used_bytes, patch_bytes,
                                                used_tokens, patch_tokens,
                                                config)
                    THEN /\ excluded' = Append(excluded,
                                <<entry.path, BudgetReason(ChangedLines(entry))>>)
                         /\ diff_was_filtered' = TRUE
                         /\ UNCHANGED <<diff_chunks, accepted, used_lines,
                                        used_bytes, used_tokens, skipped>>
                    ELSE /\ diff_chunks' = Append(diff_chunks, stripped)
                         /\ accepted' = Append(accepted, entry.path)
                         /\ used_lines' = used_lines + patch_lines
                         /\ used_bytes' = used_bytes + patch_bytes
                         /\ used_tokens' = used_tokens + patch_tokens
                         /\ UNCHANGED <<excluded, diff_was_filtered, skipped>>
    /\ queue' = Tail(queue)
    /\ UNCHANGED <<pc, config, entries, candidates, total_changed_lines,
                   large_diff, diff_text, diff_truncated, assembled>>
    /\ UNCHANGED <<logVars, collectVars, funcVars>>

\* core.py:319-331: join, append the exclusion report, clamp
Assemble ==
    /\ pc = "pack"
    /\ queue = <<>>
    /\ LET text == AssembleText(diff_chunks, excluded)
           r == truncate_diff(text, config.max_diff_bytes, config.max_patch_lines)
       IN  /\ assembled' = text
           /\ diff_text' = r[1]
           /\ diff_truncated' = r[2]
    /\ pc' = "done"
    /\ UNCHANGED <<config, entries, excluded, candidates, queue,
                   total_changed_lines, large_diff, diff_chunks, used_lines,
                   used_bytes, used_tokens, diff_was_filtered, fetched,
                   accepted, skipped, patch>>
    /\ UNCHANGED <<logVars, collectVars, funcVars>>

Next == GetNumstat \/ RawDiff \/ ExcludeHard \/ FilterLarge \/ PackStep \/ Assemble

Spec == Init /\ [][Next]_vars


-----------------------------------------------------------------------------
(* Properties of _build_filtered_diff                                      *)

LineCount(text) == Len(SplitLines(text))

IsPrefixOf(p, text) == Len(p) <= Len(text) /\ SubSeq(text, 1, Len(p)) = p

IsSuffixOf(p, text) ==
    Len(p) <= Len(text) /\ SubSeq(text, Len(text) - Len(p) + 1, Len(text)) = p

Contains(text, sub) ==
    \E i \in 1..(Len(text) - Len(sub) + 1) :
        SubSeq(text, i, i + Len(sub) - 1) = sub

ExcludedPaths == {excluded[i][1] : i \in 1..Len(excluded)}

AcceptedPaths == Range(accepted)

HasReasonPrefix(path, prefix) ==
    \E i \in 1..Len(excluded) :
        excluded[i][1] = path /\ IsPrefixOf(prefix, excluded[i][2])

LargePrefix == <<"l", "a", "r", "g", "e", " ", "d", "i", "f", "f">>

BudgetPrefix == <<"d", "i", "f", "f", " ", "b", "u", "d", "g", "e", "t">>

Filtered == pc \in {"pack", "done"} /\ entries # <<>>

Returned == pc = "done"

\* C1: the returned diff text has at most max_patch_lines lines when that
\* cap is positive and at most max_diff_bytes UTF-8 bytes when that cap is
\* positive, on the packing branch and on the empty-numstat branch alike.
C1_DiffWithinCaps ==
    Returned =>
        /\ config.max_patch_lines > 0 =>
              LineCount(diff_text) <= config.max_patch_lines
        /\ config.max_diff_bytes > 0 =>
              Utf8Len(diff_text) <= config.max_diff_bytes

\* a run whose assembled text broke both caps before the clamp
C1_Witness ==
    /\ Returned
    /\ entries # <<>>
    /\ config.max_patch_lines > 0
    /\ config.max_diff_bytes > 0
    /\ LineCount(assembled) > config.max_patch_lines
    /\ Utf8Len(assembled) > config.max_diff_bytes

\* C2: in every state of the packing loop each counter is within its
\* positive cap (lines, bytes, ceil(max_diff_bytes / 4) tokens), and no step
\* lowers a counter.
C2_BudgetCounters ==
    /\ [](/\ config.max_patch_lines > 0 => used_lines <= config.max_patch_lines
          /\ config.max_diff_bytes > 0 => used_bytes <= config.max_diff_bytes
          /\ config.max_diff_bytes > 0 =>
                used_tokens <= (config.max_diff_bytes + 3) \div 4)
    /\ [][/\ used_lines' >= used_lines
          /\ used_bytes' >= used_bytes
          /\ used_tokens' >= used_tokens]_vars

\* two patches were accepted and a later one was turned away by the budget
C2_Witness ==
    /\ pc = "pack"
    /\ Len(accepted) >= 2
    /\ used_lines > 0 /\ used_bytes > 0 /\ used_tokens > 0
    /\ config.max_patch_lines > 0
    /\ config.max_diff_bytes > 0
    /\ \E p \in ExcludedPaths : HasReasonPrefix(p, BudgetPrefix)

\* C3: no path is both accepted into the diff and in the exclusion list,
\* and no path is in the exclusion list twice.
C3_AcceptedExcludedDisjoint ==
    /\ AcceptedPaths \cap ExcludedPaths = {}
    /\ \A i, j \in 1..Len(excluded) : excluded[i][1] = excluded[j][1] => i = j

C3_Witness ==
    /\ Returned
    /\ accepted # <<>>
    /\ large_diff
    /\ \E p \in ExcludedPaths : HasReasonPrefix(p, LargePrefix)
    /\ \E p \in ExcludedPaths : HasReasonPrefix(p, BudgetPrefix)

\* C4 as stated: every inventory path whose patch was not accepted is in
\* the exclusion list.
C4_EveryUnacceptedPathExcluded ==
    Returned =>
        \A i \in 1..Len(entries) :
            entries[i].path \notin AcceptedPaths =>
                entries[i].path \in ExcludedPaths

\* C4 amended: every inventory path is accepted, or recorded in the
\* exclusion list with a reason, or was skipped because its patch was empty
\* after trimming; a skipped path is in neither the diff nor the list.
C4_UnacceptedExcludedOrSkipped ==
    Returned =>
        /\ \A i \in 1..Len(entries) :
              \/ entries[i].path \in AcceptedPaths
              \/ entries[i].path \in skipped
              \/ \E j \in 1..Len(excluded) :
                    /\ excluded[j][1] = entries[i].path
                    /\ excluded[j][2] # <<>>
        /\ skipped \cap (AcceptedPaths \cup ExcludedPaths) = {}
        /\ ExcludedPaths \subseteq {entries[i].path : i \in 1..Len(entries)}

C4_Witness ==
    /\ Returned
    /\ skipped # {}
    /\ accepted # <<>>
    /\ excluded # <<>>

\* C5: the returned diff_was_filtered flag is true exactly when the
\* exclusion list is non-empty.
C5_FilteredIffExcluded ==
    Returned => (diff_was_filtered <=> excluded # <<>>)

\* only the packing loop excluded anything
C5_Witness ==
    /\ Returned
    /\ diff_was_filtered
    /\ excluded # <<>>
    /\ \A p \in ExcludedPaths : HasReasonPrefix(p, BudgetPrefix)

\* C6 as stated: whenever a file was excluded, the returned diff text
\* contains the rendered exclusion report.
C6_ReportInReturnedDiff ==
    Returned /\ excluded # <<>> =>
        Contains(diff_text, format_excluded_files(excluded))

\* C6 amended: whenever a file was excluded, the text handed to the final
\* truncation pass ends with the rendered exclusion report, and the
\* returned text contains the report if the truncation pass did not fire.
C6_ReportBeforeTruncation ==
    Returned /\ excluded # <<>> =>
        /\ IsSuffixOf(format_excluded_files(excluded), assembled)
        /\ ~diff_truncated =>
              Contains(diff_text, format_excluded_files(excluded))

C6_Witness ==
    /\ Returned
    /\ Len(excluded) >= 2
    /\ accepted # <<>>
    /\ ~diff_truncated
    /\ config.max_patch_lines > 0
    /\ config.max_diff_bytes > 0

\* C7: a lock-file path or a binary entry is recorded with its reason, its
\* patch is never fetched, it is never accepted, and it does not count
\* toward total_changed_lines.
C7_HardExcludedNeverPacked ==
    Filtered =>
        /\ \A i \in 1..Len(entries) :
              LET e == entries[i]
              IN  (is_hard_excluded(e.path) \/ e.is_binary) =>
                    /\ <<e.path, IF is_hard_excluded(e.path)
                                 THEN LockReason ELSE BinaryReason>>
                          \in Range(excluded)
                    /\ e.path \notin fetched
                    /\ e.path \notin AcceptedPaths
                    /\ e.path \notin {queue[k].path : k \in 1..Len(queue)}
        /\ total_changed_lines =
              SumSeq([i \in 1..Len(entries) |->
                  IF is_hard_excluded(entries[i].path) \/ entries[i].is_binary
                  THEN 0
                  ELSE OrZero(entries[i].added) + OrZero(entries[i].deleted)])

C7_Witness ==
    /\ Returned
    /\ \E i \in 1..Len(entries) :
          is_hard_excluded(entries[i].path) /\ OrZero(entries[i].added) > 0
    /\ \E i \in 1..Len(entries) : entries[i].is_binary
    /\ accepted # <<>>

\* C8: a surviving candidate carries the large-diff reason exactly when
\* max_patch_lines > 0, the added+deleted of all surviving candidates sum to
\* more than max_patch_lines, and its own added+deleted is at least
\* max(200, max_patch_lines div 2).
C8_LargeDiffExactly ==
    Filtered =>
        LET survivors == {i \in 1..Len(entries) :
                             /\ ~is_hard_excluded(entries[i].path)
                             /\ ~entries[i].is_binary}
            own(i) == OrZero(entries[i].added) + OrZero(entries[i].deleted)
            total == SumSeq([i \in 1..Len(entries) |->
                                IF i \in survivors THEN own(i) ELSE 0])
            half == config.max_patch_lines \div 2
            limit == IF half > 200 THEN half ELSE 200
        IN  /\ \A i \in survivors :
                  HasReasonPrefix(entries[i].path, LargePrefix) <=>
                      /\ config.max_patch_lines > 0
                      /\ total > config.max_patch_lines
                      /\ own(i) >= limit
            /\ \A i \in 1..Len(entries) :
                  i \notin survivors =>
                      ~HasReasonPrefix(entries[i].path, LargePrefix)

\* one candidate of 201 lines dropped under a limit of 201 while one of 200
\* lines stays
C8_Witness ==
    /\ Returned
    /\ large_diff
    /\ config.max_patch_lines \div 2 > 200
    /\ \E i, j \in 1..Len(entries) :
          /\ HasReasonPrefix(entries[i].path, LargePrefix)
          /\ ChangedLines(entries[j]) >= 200
          /\ ~entries[j].is_binary /\ ~is_hard_excluded(entries[j].path)
          /\ ~HasReasonPrefix(entries[j].path, LargePrefix)


-----------------------------------------------------------------------------
(* src/cmtr/git.py: the log context selector                               *)

\* the end-of-entry delimiter of the log export (git.py:281, 290); one
\* symbol stands for its eleven characters
END == "----END----"

\* the hard ceiling of git.py:248
MAX_TARGET_ENTRIES == 10

\* seq[:n]
Take(seq, n) == SubSeq(seq, 1, Min(Len(seq), Max(n, 0)))

\* CommitMessage(subject, body)
CommitMessage(subject, body) == [subject |-> subject, body |-> body]

\* what git log --pretty=format:%s%n%b%n----END---- prints for the commits
GitLogOutput(commits) ==
    Join([i \in 1..Len(commits) |->
             commits[i].subject \o <<NL>> \o commits[i].body \o <<NL, END>>],
         <<NL>>)

\* git.py:289-298: one chunk of the export between two delimiters
ParseChunk(chunk) ==
    LET text == LStripSet(RStripSet(chunk, {NL}), {NL})
        lines == SplitLines(text)
        rest == [i \in 1..(Len(lines) - 1) |->
                    RStripSet(lines[i + 1], Whitespace)]
    IN  CommitMessage(Strip(lines[1]), Strip(Join(rest, <<NL>>)))

\* git.py:289-298: the entries parsed from the export
ParseLog(output) ==
    LET chunks == Split(output, END)
        kept == SelectSeq(chunks, LAMBDA chunk :
                    Strip(LStripSet(RStripSet(chunk, {NL}), {NL})) # <<>>)
    IN  [i \in 1..Len(kept) |-> ParseChunk(kept[i])]

\* git.py:273-298: commits is what git log finds for the scope, most recent
\* first; ok is FALSE when git fails (GitError)
get_log_entries(commits, count, ok) ==
    IF count <= 0 THEN <<>>
    ELSE IF ~ok THEN <<>>
    ELSE ParseLog(GitLogOutput(Take(commits, count)))

\* a variant that records the keys but never skips an entry
dedupe_entries_no_skip(ents, seen0) ==
    <<ents, seen0 \cup {<<ents[i].subject, ents[i].body>> : i \in 1..Len(ents)}>>

\* git.py:301-312: returns <<unique, seen>>
RECURSIVE dedupe_entries(_, _)
dedupe_entries(ents, seen0) ==
    IF ents = <<>> THEN <<<<>>, seen0>>
    ELSE LET front == dedupe_entries(SubSeq(ents, 1, Len(ents) - 1), seen0)
             entry == ents[Len(ents)]
             key == <<entry.subject, entry.body>>
         IN  IF key \in front[2] THEN front
             ELSE <<Append(front[1], entry), front[2] \cup {key}>>

\* a variant that stops after the first shared segment
common_prefix_first_segment(paths) ==
    LET parts_list == [i \in 1..Len(paths) |-> split_parts(paths[i])]
    IN  IF paths = <<>> THEN <<>>
        ELSE IF \A i \in 1..Len(parts_list) :
                    parts_list[i] # <<>> /\ parts_list[i][1] = parts_list[1][1]
        THEN parts_list[1][1]
        ELSE <<>>

\* git.py:334-346
common_prefix(paths) ==
    LET parts_list == [i \in 1..Len(paths) |-> split_parts(paths[i])]
        min_len == CHOOSE n \in {Len(parts_list[i]) : i \in 1..Len(parts_list)} :
                       \A i \in 1..Len(parts_list) : n <= Len(parts_list[i])
        agree(k) == \A i \in 1..Len(parts_list) :
                        parts_list[i][k] = parts_list[1][k]
        upto == {n \in 0..min_len : \A k \in 1..n : agree(k)}
        n == CHOOSE m \in upto : \A j \in upto : j <= m
    IN  IF paths = <<>> THEN <<>>
        ELSE Join(SubSeq(parts_list[1], 1, n), <<"/">>)

\* str(Path(file).parent)
PathParent(file) ==
    LET parts == split_parts(file)
    IN  IF Len(parts) <= 1 THEN <<".">>
        ELSE Join(SubSeq(parts, 1, Len(parts) - 1), <<"/">>)

\* git.py:381-400; changed_lines is a function from paths to counts
best_changed_path(files, changed_lines) ==
    LET key(file) == IF PathParent(file) = <<".">> THEN file ELSE PathParent(file)
        keys == {key(files[i]) : i \in 1..Len(files)}
        get(file) == IF file \in DOMAIN changed_lines
                     THEN changed_lines[file] ELSE 0
        score(k) == SumSeq([i \in 1..Len(files) |->
                               IF key(files[i]) = k THEN get(files[i]) ELSE 0])
        depth(k) == Len(split_parts(k))
        before(a, b) ==
            \/ score(a) > score(b)
            \/ score(a) = score(b) /\ depth(a) > depth(b)
            \/ score(a) = score(b) /\ depth(a) = depth(b) /\ StrLess(a, b)
    IN  IF files = <<>> THEN <<>>
        ELSE CHOOSE k \in keys : \A other \in keys \ {k} : before(k, other)

\* git.py:315-327
select_log_paths(files, paths_cap, changed_lines) ==
    IF files = <<>> \/ paths_cap <= 0 THEN <<>>
    ELSE LET named == SelectSeq(files, LAMBDA file : file # <<>>)
             shared == common_prefix(named)
         IN  IF shared = <<>>
             THEN LET fallback == best_changed_path(named, changed_lines)
                  IN  IF fallback # <<>> THEN <<fallback>> ELSE <<>>
             ELSE <<shared>>

\* git.py:359-378; numstat is the inventory, ok is FALSE on GitError
build_changed_line_map(files, numstat, ok) ==
    LET staged_set == {files[i] : i \in 1..Len(files)} \ {<<>>}
        hits == {numstat[i].path : i \in 1..Len(numstat)} \cap staged_set
    IN  IF files = <<>> \/ staged_set = {} \/ ~ok THEN <<>>
        ELSE [path \in hits |->
                 SumSeq([i \in 1..Len(numstat) |->
                            IF numstat[i].path = path
                            THEN ChangedLines(numstat[i]) ELSE 0])]


\* the tab of git config --show-origin --list
TAB == "\t"

\* HooksPathEntry(origin, path)
HooksPathEntry(origin, path) == [origin |-> origin, path |-> path]

\* a variant of str.lower that leaves every character as it is
LowerText_identity(text) == text

\* str.lower(); one symbol stands for each spelling of the key name
LowerText(text) ==
    [i \in 1..Len(text) |->
        IF text[i] \in {"core.hooksPath", "CORE.HOOKSPATH"}
        THEN "core.hookspath"
        ELSE text[i]]

\* git.py:152-159; the empty tuple stands for None
split_origin_line(line) ==
    LET tabs == {i \in 1..Len(line) : line[i] = TAB}
        blanks == {i \in 1..Len(line) : line[i] \in Whitespace}
        first(at) == CHOOSE i \in at : \A j \in at : i <= j
    IN  IF tabs # {}
        THEN <<SubSeq(line, 1, first(tabs) - 1),
               Strip(SubSeq(line, first(tabs) + 1, Len(line)))>>
        ELSE LET stripped == LStripSet(line, Whitespace)
                 gaps == {i \in 1..Len(stripped) : stripped[i] \in Whitespace}
                 tail == IF gaps = {} THEN <<>>
                         ELSE LStripSet(SubSeq(stripped, first(gaps), Len(stripped)),
                                        Whitespace)
             IN  IF gaps = {} \/ tail = <<>> THEN <<>>
                 ELSE <<SubSeq(stripped, 1, first(gaps) - 1), Strip(tail)>>

\* git.py:162-166; the key None is the empty string here, both are falsy
split_key_value(text) ==
    LET eqs == {i \in 1..Len(text) : text[i] = "="}
        first == CHOOSE i \in eqs : \A j \in eqs : i <= j
    IN  IF eqs = {} THEN <<<<>>, Strip(text)>>
        ELSE <<Strip(SubSeq(text, 1, first - 1)),
               Strip(SubSeq(text, first + 1, Len(text)))>>

\* git.py:102-120
parse_hooks_path_entries(output) ==
    LET parsed(raw_line) == split_origin_line(Strip(raw_line))
        pair(raw_line) == split_key_value(parsed(raw_line)[2])
        kept(raw_line) ==
            /\ Strip(raw_line) # <<>>
            /\ parsed(raw_line) # <<>>
            /\ pair(raw_line)[1] # <<>>
            /\ LowerText(pair(raw_line)[1]) = <<"core.hookspath">>
            /\ pair(raw_line)[2] # <<>>
        lines == SelectSeq(SplitLines(output), kept)
    IN  [i \in 1..Len(lines) |->
            HooksPathEntry(parsed(lines[i])[1], pair(lines[i])[2])]


-----------------------------------------------------------------------------
(* Inputs of gather_log_context                                            *)

\* the longest list of staged files
MaxStaged == 2

\* the longest history drawn freely from CommitPool
MaxCommits == 2

\* the length of the histories of pairwise distinct commits
LongHistoryLen == 12

StagedPool == { <<"a", "/", "x">>, <<"a", "/", "y">>, <<"b">> }

\* git diff --cached --name-only lists each staged path once, in path order
StagedChoices ==
    {files \in UNION {[1..n -> StagedPool] : n \in 0..MaxStaged} :
        \A i, j \in 1..Len(files) : i < j => StrLess(files[i], files[j])}

\* the (added, deleted) counts git may report for a staged file
ChangeChoices == { <<1, 0>>, <<2, 1>> }

\* the numstat inventories for the staged files: one entry per file
LogNumstats(files) ==
    {[i \in 1..Len(files) |-> Entry(files[i], counts[i][1], counts[i][2])] :
        counts \in [1..Len(files) -> ChangeChoices]}

\* a commit: its subject line, its body, and whether it touches the primary
\* log path.  The third message quotes the delimiter in its body.
Commit(subject, body, touches) ==
    [subject |-> subject, body |-> body, touches |-> touches]

MessagePool ==
    { <<<<"s", "1">>, <<>>>>,
      <<<<"s", "2">>, <<"b", "1", NL, "b", "2", NL>>>>,
      <<<<"s", "1">>, <<"b", "1", " ", END, " ", "s", "1", NL>>>> }

CommitPool ==
    {Commit(m[1], m[2], t) : m \in MessagePool, t \in BOOLEAN}

LongHistory(touching) ==
    [i \in 1..LongHistoryLen |->
        Commit(<<"c">> \o DecimalStr(i), <<>>, i \in touching)]

\* a history whose two most recent commits carry the same message, the first
\* touching the primary log path, followed by an older, different commit
ShadowedHistory ==
    << Commit(<<"s", "1">>, <<>>, TRUE),
       Commit(<<"s", "1">>, <<>>, FALSE),
       Commit(<<"s", "2">>, <<"b", "1", NL, "b", "2", NL>>, FALSE) >>

Histories ==
    UNION {[1..n -> CommitPool] : n \in 0..MaxCommits}
    \cup {LongHistory(1..LongHistoryLen),
          LongHistory({i \in 1..LongHistoryLen : i % 2 = 1}),
          LongHistory(1..2),
          ShadowedHistory}

MaxPathsChoices == {0, 4}

MaxEntriesChoices == {0, 1, 2, 12}

-----------------------------------------------------------------------------
(* gather_log_context as a state machine                                   *)

LogInit ==
    /\ lpc = "start"
    /\ staged_files \in StagedChoices
    /\ max_paths \in MaxPathsChoices
    /\ max_entries \in MaxEntriesChoices
    /\ history \in Histories
    /\ LogFresh
    /\ DiffIdle
    /\ CollectIdle
    /\ FuncIdle

LogContext(path, ents) == [path |-> path, entries |-> ents]

RepositoryScope == <<"r", "e", "p", "o", "s", "i", "t", "o", "r", "y">>

\* the commits git log -- primary_path walks
PrimaryCommits == SelectSeq(history, LAMBDA c : c.touches)

\* git.py:246-250
CheckCaps ==
    /\ lpc = "start"
    /\ IF max_paths <= 0 \/ max_entries <= 0
       THEN lpc' = "done" /\ UNCHANGED target_entries
       ELSE /\ target_entries' = Min(max_entries, MAX_TARGET_ENTRIES)
            /\ lpc' = IF target_entries' <= 0 THEN "done" ELSE "select"
    /\ UNCHANGED <<staged_files, max_paths, max_entries, history, log_paths,
                   seen, primary_entries, repo_entries, contexts, log_queries>>
    /\ UNCHANGED <<diffVars, collectVars, funcVars>>

\* git.py:251-252
SelectLogPaths ==
    /\ lpc = "select"
    /\ \E numstat \in LogNumstats(staged_files), ok \in BOOLEAN :
          log_paths' = select_log_paths(staged_files, max_paths,
                           build_changed_line_map(staged_files, numstat, ok))
    /\ lpc' = "primary"
    /\ UNCHANGED <<staged_files, max_paths, max_entries, history,
                   target_entries, seen, primary_entries, repo_entries,
                   contexts, log_queries>>
    /\ UNCHANGED <<diffVars, collectVars, funcVars>>

\* git.py:253-261
FetchPrimary ==
    /\ lpc = "primary"
    /\ IF log_paths # <<>>
       THEN \E ok \in BOOLEAN :
               LET primary_path == log_paths[1]
                   got == dedupe_entries(
                              get_log_entries(PrimaryCommits, target_entries, ok),
                              seen)
               IN  /\ primary_entries' = got[1]
                   /\ seen' = got[2]
                   /\ contexts' = IF got[1] # <<>>
                                  THEN Append(contexts,
                                              LogContext(primary_path, got[1]))
                                  ELSE contexts
                   /\ log_queries' = Append(log_queries,
                                            <<primary_path, target_entries>>)
       ELSE UNCHANGED <<primary_entries, seen, contexts, log_queries>>
    /\ lpc' = "backfill"
    /\ UNCHANGED <<staged_files, max_paths, max_entries, history,
                   target_entries, log_paths, repo_entries>>
    /\ UNCHANGED <<diffVars, collectVars, funcVars>>

\* a variant that always queries the repository-wide history
NeedsBackfill_always(primary, target) == TRUE

\* git.py:262: len(primary_entries) < target_entries
NeedsBackfill(primary, target) == Len(primary) < target

\* git.py:262-270
Backfill ==
    /\ lpc = "backfill"
    /\ IF NeedsBackfill(primary_entries, target_entries)
       THEN \E ok \in BOOLEAN :
               LET remaining == target_entries - Len(primary_entries)
                   got == dedupe_entries(
                              get_log_entries(history, max_entries, ok), seen)
                   trimmed == IF remaining < Len(got[1])
                              THEN Take(got[1], remaining) ELSE got[1]
               IN  /\ repo_entries' = trimmed
                   /\ seen' = got[2]
                   /\ contexts' = IF trimmed # <<>>
                                  THEN Append(contexts,
                                              LogContext(RepositoryScope, trimmed))
                                  ELSE contexts
                   /\ log_queries' = Append(log_queries,
                                            <<RepositoryScope, max_entries>>)
       ELSE UNCHANGED <<repo_entries, seen, contexts, log_queries>>
    /\ lpc' = "done"
    /\ UNCHANGED <<staged_files, max_paths, max_entries, history,
                   target_entries, log_paths, primary_entries>>
    /\ UNCHANGED <<diffVars, collectVars, funcVars>>

LogNext == CheckCaps \/ SelectLogPaths \/ FetchPrimary \/ Backfill

LogSpec == LogInit /\ [][LogNext]_vars


-----------------------------------------------------------------------------
(* Properties of gather_log_context                                        *)

LogReturned == lpc = "done"

\* the exemplars of all returned scopes, in order
RECURSIVE FlattenEntries(_)
FlattenEntries(ctxs) ==
    IF ctxs = <<>> THEN <<>>
    ELSE ctxs[1].entries \o FlattenEntries(Tail(ctxs))

\* C9: no (subject, body) pair occurs twice among the exemplars of the
\* returned scopes, within one scope or across the two.
C9_NoDuplicateExemplars ==
    LET all == FlattenEntries(contexts)
    IN  \A i, j \in 1..Len(all) :
            (all[i].subject = all[j].subject /\ all[i].body = all[j].body)
                => i = j

\* both scopes are returned although the repository-wide export repeated an
\* exemplar of the primary scope
C9_Witness ==
    /\ LogReturned
    /\ Len(contexts) = 2
    /\ \E e \in Range(ParseLog(GitLogOutput(Take(history, max_entries)))) :
          e \in Range(primary_entries)

\* C10: the exemplars of all returned scopes number at most
\* min(max_entries, 10); the primary scope holds at most that many and the
\* repository scope at most the slots the primary scope left.
C10_TotalWithinTarget ==
    LogReturned =>
        LET target == IF max_entries < 10 THEN max_entries ELSE 10
        IN  /\ Len(FlattenEntries(contexts)) <= target
            /\ Len(primary_entries) <= target
            /\ Len(repo_entries) <= target - Len(primary_entries)

\* C25: gather_log_context returns at most two scopes, none with an empty
\* entry list; a scope for the primary path comes first and the scope named
\* "repository" last; the repository-wide history has been queried only if
\* the primary scope holds fewer than target_entries entries after
\* deduplication.
C25_AtMostTwoOrderedScopes ==
    /\ Len(contexts) <= 2
    /\ \A i \in 1..Len(contexts) : contexts[i].entries # <<>>
    /\ Len(contexts) = 2 =>
          /\ log_paths # <<>>
          /\ contexts[1] = LogContext(log_paths[1], primary_entries)
          /\ contexts[2] = LogContext(RepositoryScope, repo_entries)
    /\ Len(contexts) = 1 =>
          \/ /\ log_paths # <<>>
             /\ contexts[1] = LogContext(log_paths[1], primary_entries)
          \/ contexts[1] = LogContext(RepositoryScope, repo_entries)
    /\ (\E i \in 1..Len(log_queries) : log_queries[i][1] = RepositoryScope) =>
          Len(primary_entries) < target_entries

\* the primary scope filled every slot, so only the primary path was
\* queried and one scope is returned
C25_Witness ==
    /\ LogReturned
    /\ target_entries >= 2
    /\ Len(primary_entries) = target_entries
    /\ Len(log_queries) = 1
    /\ Len(contexts) = 1

\* the (subject, body) keys of a list of entries
EntryKeys(ents) == {<<ents[i].subject, ents[i].body>> : i \in 1..Len(ents)}

\* the entries parsed from the export of the max_entries most recent commits
\* of the whole repository
RepositoryWindow == ParseLog(GitLogOutput(Take(history, max_entries)))

\* the entries of ents whose key is not in keys and not carried by an
\* earlier entry of ents, in order
RECURSIVE FreshEntries(_, _)
FreshEntries(ents, keys) ==
    IF ents = <<>> THEN <<>>
    ELSE LET key == <<ents[1].subject, ents[1].body>>
         IN  IF key \in keys THEN FreshEntries(Tail(ents), keys)
             ELSE <<ents[1]>> \o FreshEntries(Tail(ents), keys \cup {key})

\* a primary scope was selected and left slots open, and the repository-wide
\* query did not fail (its keys are all in the dedupe set)
BackfillRan ==
    /\ LogReturned
    /\ max_paths > 0
    /\ log_paths # <<>>
    /\ target_entries > 0
    /\ Len(primary_entries) < target_entries
    /\ EntryKeys(RepositoryWindow) \subseteq seen

\* C29 as stated: if the primary scope yields fewer than target_entries
\* entries and the whole repository history holds at least as many
\* (subject, body) pairs, distinct from each other and from the primary
\* entries, as there are slots left, then the returned scopes hold exactly
\* target_entries entries in total.
C29_BackfillReachesTarget ==
    (/\ BackfillRan
     /\ Cardinality(EntryKeys(ParseLog(GitLogOutput(history)))
                        \ EntryKeys(primary_entries))
            >= target_entries - Len(primary_entries))
        => Len(FlattenEntries(contexts)) = target_entries

\* C29 (amended): if the primary scope yields fewer than target_entries
\* entries, the repository scope holds, in order, the first
\* target_entries - len(primary_entries) entries with a new (subject, body)
\* pair among those parsed from the max_entries most recent commits of the
\* repository (none when that query fails); the total is the number of
\* primary entries plus the smaller of the slots left and the number of
\* such new pairs, so it reaches target_entries exactly when that window
\* holds enough of them, whatever older history holds.
C29_BackfillFromRecentWindow ==
    (/\ LogReturned
     /\ max_paths > 0
     /\ target_entries > 0
     /\ Len(primary_entries) < target_entries) =>
        LET remaining == target_entries - Len(primary_entries)
            fresh == FreshEntries(RepositoryWindow, EntryKeys(primary_entries))
        IN  /\ Len(FlattenEntries(contexts))
                   = Len(primary_entries) + Len(repo_entries)
            /\ IF EntryKeys(RepositoryWindow) \subseteq seen
               THEN /\ repo_entries = Take(fresh, remaining)
                    /\ Len(FlattenEntries(contexts))
                           = Len(primary_entries) + Min(remaining, Len(fresh))
               ELSE /\ repo_entries = <<>>
                    /\ seen = EntryKeys(primary_entries)

\* the two most recent commits repeat the only primary exemplar, so the
\* total stays below the target although an older commit differs
C29_Witness ==
    /\ BackfillRan
    /\ history = ShadowedHistory
    /\ max_entries = 2
    /\ Len(primary_entries) = 1
    /\ Len(log_queries) = 2
    /\ Len(FlattenEntries(contexts)) = 1

\* C24: gather_log_context returns no scopes whenever min(max_entries, 10)
\* is 0 or less or the list of paths it is given is empty; an empty list
\* never yields the repository scope.
C24_NoScopesWithoutPaths ==
    (/\ LogReturned
     /\ \/ max_entries <= 0
        \/ staged_files = <<>>) =>
        contexts = <<>>

\* C16: max_paths <= 0 lifts the log-path cap and leaves the log context
\* on: with max_entries > 0, staged files and commit history present,
\* gather_log_context selects a log scope and returns exemplars.
C16_NonPositiveMaxPathsKeepsLogContext ==
    (/\ LogReturned
     /\ max_paths <= 0
     /\ max_entries > 0
     /\ staged_files # <<>>
     /\ history # <<>>) =>
        /\ log_paths # <<>>
        /\ contexts # <<>>

-----------------------------------------------------------------------------
(* src/cmtr/core.py: collect_context as a state machine.  Its calls of     *)
(* _build_filtered_diff and gather_log_context run the actions of the two  *)
(* machines above; a GitError they do not catch leaves collect_context.    *)

CollectConfigs ==
    { [max_patch_lines |-> 3, max_diff_bytes |-> 50,
       max_log_paths |-> 4, max_log_entries |-> 2],
      [max_patch_lines |-> 400, max_diff_bytes |-> 12000,
       max_log_paths |-> 4, max_log_entries |-> 20] }

\* what git diff --cached --name-only may list
CollectStagedChoices ==
    { <<>>,
      << <<"a", "/", "x">> >>,
      << <<"a", "/", "g", "o", ".", "s", "u", "m">>, <<"a", "/", "x">> >>,
      << <<"a", "/", "x">>, <<"b">> >> }

\* the repository's history: none, or two commits
CollectHistories ==
    { <<>>,
      << Commit(<<"s", "1">>, <<>>, TRUE),
         Commit(<<"s", "2">>, <<"b", "1", NL, "b", "2", NL>>, FALSE) >> }

CollectInit ==
    /\ cpc = "staged"
    /\ ctx_staged_files = <<>>
    /\ git_calls = <<>>
    /\ raised = "none"
    /\ failed_query = "none"
    /\ diff_result = <<>>
    /\ has_commit_history = FALSE
    /\ ctx_log_paths = <<>>
    /\ log_contexts = <<>>
    /\ pc = "idle"
    /\ config \in CollectConfigs
    /\ DiffFresh
    /\ LogIdle
    /\ FuncIdle

\* a variant that never finds the staged list empty
NothingStaged_never(files) == FALSE

\* core.py:71: not staged_files
NothingStaged(files) == files = <<>>

\* run_git raised GitError for the query and nothing caught it
RaiseGitError(query) ==
    /\ raised' = "GitError"
    /\ failed_query' = query
    /\ cpc' = "raised"

\* the frame of _build_filtered_diff is gone
DiffReset ==
    /\ pc' = "idle"
    /\ entries' = <<>>
    /\ excluded' = <<>>
    /\ candidates' = <<>>
    /\ queue' = <<>>
    /\ total_changed_lines' = 0
    /\ large_diff' = FALSE
    /\ diff_chunks' = <<>>
    /\ used_lines' = 0
    /\ used_bytes' = 0
    /\ used_tokens' = 0
    /\ diff_was_filtered' = FALSE
    /\ diff_text' = <<>>
    /\ diff_truncated' = FALSE
    /\ assembled' = <<>>
    /\ fetched' = {}
    /\ accepted' = <<>>
    /\ skipped' = {}
    /\ patch' = <<>>
    /\ UNCHANGED config

\* core.py:70-72: staged_files = get_staged_files(repo_root)
GetStagedFiles ==
    /\ cpc = "staged"
    /\ git_calls' = Append(git_calls, "staged")
    /\ \E ok \in BOOLEAN, files \in CollectStagedChoices :
          IF ~ok
          THEN RaiseGitError("staged") /\ UNCHANGED ctx_staged_files
          ELSE /\ ctx_staged_files' = files
               /\ IF NothingStaged(files)
                  THEN raised' = "UserError" /\ cpc' = "raised"
                  ELSE raised' = raised /\ cpc' = "name_status"
               /\ UNCHANGED failed_query
    /\ UNCHANGED <<diff_result, has_commit_history, ctx_log_paths, log_contexts>>
    /\ UNCHANGED <<diffVars, logVars, funcVars>>

\* core.py:73: name_status = get_name_status(repo_root)
GetNameStatus ==
    /\ cpc = "name_status"
    /\ git_calls' = Append(git_calls, "name-status")
    /\ \E ok \in BOOLEAN :
          IF ok
          THEN cpc' = "diff_stat" /\ UNCHANGED <<raised, failed_query>>
          ELSE RaiseGitError("name-status")
    /\ UNCHANGED <<ctx_staged_files, diff_result, has_commit_history,
                   ctx_log_paths, log_contexts>>
    /\ UNCHANGED <<diffVars, logVars, funcVars>>

\* core.py:74-75: diff_stat = get_diff_stat(repo_root), then the call of
\* _build_filtered_diff
GetDiffStat ==
    /\ cpc = "diff_stat"
    /\ git_calls' = Append(git_calls, "diff-stat")
    /\ \E ok \in BOOLEAN :
          IF ok
          THEN /\ cpc' = "build_diff"
               /\ pc' = "numstat"
               /\ UNCHANGED <<raised, failed_query>>
          ELSE RaiseGitError("diff-stat") /\ UNCHANGED pc
    /\ UNCHANGED <<ctx_staged_files, diff_result, has_commit_history,
                   ctx_log_paths, log_contexts>>
    /\ UNCHANGED <<config, entries, excluded, candidates, queue,
                   total_changed_lines, large_diff, diff_chunks, used_lines,
                   used_bytes, used_tokens, diff_was_filtered, diff_text,
                   diff_truncated, assembled, fetched, accepted, skipped, patch>>
    /\ UNCHANGED <<logVars, funcVars>>

\* core.py:247: get_diff_numstat raises GitError
NumstatFails ==
    /\ cpc = "build_diff"
    /\ pc = "numstat"
    /\ RaiseGitError("numstat")
    /\ DiffReset
    /\ UNCHANGED <<ctx_staged_files, git_calls, diff_result,
                   has_commit_history, ctx_log_paths, log_contexts>>
    /\ UNCHANGED <<logVars, funcVars>>

\* core.py:249, 294: get_diff_patch raises GitError
PatchFails ==
    /\ cpc = "build_diff"
    /\ pc = "raw" \/ (pc = "pack" /\ queue # <<>>)
    /\ RaiseGitError("patch")
    /\ DiffReset
    /\ UNCHANGED <<ctx_staged_files, git_calls, diff_result,
                   has_commit_history, ctx_log_paths, log_contexts>>
    /\ UNCHANGED <<logVars, funcVars>>

\* core.py:79-83
LogPathsFor(files, filtered) ==
    LET kept == SelectSeq(files, LAMBDA path : ~is_hard_excluded(path))
    IN  IF filtered /\ kept # <<>> THEN kept ELSE files

\* core.py:75-92: _build_filtered_diff returns, has_commits, log_paths and
\* the call of gather_log_context
HasCommits ==
    /\ cpc = "build_diff"
    /\ pc = "done"
    /\ diff_result' = <<diff_text, diff_was_filtered, diff_truncated>>
    /\ DiffReset
    /\ git_calls' = Append(git_calls, "rev-parse")
    /\ ctx_log_paths' = LogPathsFor(ctx_staged_files, diff_was_filtered)
    /\ \E ok \in BOOLEAN, commits \in CollectHistories :
          /\ has_commit_history' = (ok /\ commits # <<>>)
          /\ IF has_commit_history'
             THEN /\ cpc' = "log"
                  /\ lpc' = "start"
                  /\ staged_files' = ctx_log_paths'
                  /\ max_paths' = config.max_log_paths
                  /\ max_entries' = config.max_log_entries
                  /\ history' = commits
                  /\ UNCHANGED log_contexts
             ELSE /\ cpc' = "done"
                  /\ log_contexts' = <<>>
                  /\ UNCHANGED <<lpc, staged_files, max_paths, max_entries,
                                 history>>
    /\ UNCHANGED <<target_entries, log_paths, seen, primary_entries,
                   repo_entries, contexts, log_queries>>
    /\ UNCHANGED <<ctx_staged_files, raised, failed_query>>
    /\ UNCHANGED funcVars

\* core.py:85-103: gather_log_context returns and the payload is built
ReturnContext ==
    /\ cpc = "log"
    /\ lpc = "done"
    /\ log_contexts' = contexts
    /\ cpc' = "done"
    /\ lpc' = "idle"
    /\ staged_files' = <<>>
    /\ max_paths' = 0
    /\ max_entries' = 0
    /\ history' = <<>>
    /\ target_entries' = 0
    /\ log_paths' = <<>>
    /\ seen' = {}
    /\ primary_entries' = <<>>
    /\ repo_entries' = <<>>
    /\ contexts' = <<>>
    /\ log_queries' = <<>>
    /\ UNCHANGED <<ctx_staged_files, git_calls, raised, failed_query,
                   diff_result, has_commit_history, ctx_log_paths>>
    /\ UNCHANGED <<diffVars, funcVars>>

CollectNext ==
    \/ GetStagedFiles \/ GetNameStatus \/ GetDiffStat
    \/ NumstatFails \/ PatchFails
    \/ GetNumstat \/ RawDiff \/ ExcludeHard \/ FilterLarge \/ PackStep \/ Assemble
    \/ HasCommits
    \/ CheckCaps \/ SelectLogPaths \/ FetchPrimary \/ Backfill
    \/ ReturnContext

CollectSpec == CollectInit /\ [][CollectNext]_vars

-----------------------------------------------------------------------------
(* Properties of collect_context                                           *)

\* C12: when the staged-file query succeeds with an empty list,
\* collect_context has raised UserError and the staged-file query is the
\* only query ever issued: _build_filtered_diff and gather_log_context are
\* never entered, so no name-status, diff-stat, numstat, patch, rev-parse
\* or log query follows.
C12_NothingStagedFailsFirst ==
    (cpc # "staged" /\ failed_query # "staged" /\ ctx_staged_files = <<>>) =>
        /\ raised = "UserError"
        /\ cpc = "raised"
        /\ git_calls = <<"staged">>
        /\ pc = "idle" /\ entries = <<>> /\ fetched = {}
        /\ lpc = "idle" /\ log_queries = <<>>

C12_Witness ==
    /\ raised = "UserError"
    /\ ctx_staged_files = <<>>
    /\ git_calls = <<"staged">>

\* C13: a GitError leaves collect_context only when the staged-file query
\* failed; a failure of any other query is absorbed as no data.
C13_OnlyStagedQueryFatal ==
    raised = "GitError" => failed_query = "staged"

\* C23: the primary log scope of collect_context is the one the selector
\* computes over all staged paths, lock files included, whether or not the
\* diff was filtered.
C23_LogScopeOverAllStagedPaths ==
    (cpc = "log" /\ lpc \in {"primary", "backfill", "done"}) =>
        /\ staged_files = ctx_staged_files
        /\ \E numstat \in LogNumstats(ctx_staged_files), ok \in BOOLEAN :
              log_paths =
                  select_log_paths(ctx_staged_files, max_paths,
                      build_changed_line_map(ctx_staged_files, numstat, ok))

-----------------------------------------------------------------------------
(* The pure helpers, each applied once to inputs drawn from bounded sets   *)

\* the longest text handed to _truncate_bytes
MaxTextLen == 3

TextAlphabet == {"a", "U2", "U3", "U4"}

Texts == UNION {[1..n -> TextAlphabet] : n \in 0..MaxTextLen}

\* _truncate_diff calls _truncate_bytes with max_bytes > 0 only (core.py:226)
TruncateBytesInputs == Texts \X (1..7)

\* the longest list of paths handed to _select_log_paths
MaxSelectFiles == 3

SelectPathPool ==
    { <<"s", "/", "a", "/", "x">>,
      <<"s", "/", "a", "/", "y">>,
      <<"s", "/", "b">>,
      <<"t", "/", "x">>,
      <<"r">> }

\* lists of pairwise distinct paths
SelectFiles ==
    {files \in UNION {[1..n -> SelectPathPool] : n \in 1..MaxSelectFiles} :
        \A i, j \in 1..Len(files) : files[i] = files[j] => i = j}

\* the maps _build_changed_line_map may return for the files: empty when
\* the numstat query failed, else one count per file
ChangedLineMaps(files) ==
    {<<>>} \cup [Range(files) -> {1, 3}]

\* gather_log_context calls _select_log_paths with max_paths > 0 only
\* (git.py:246)
SelectLogPathsInputs ==
    UNION {{<<files, cap, changed>> :
               cap \in {1, 4}, changed \in ChangedLineMaps(files)} :
           files \in SelectFiles}

\* the most lines of git config --show-origin --list output
MaxConfigLines == 2

\* lines git config --show-origin --list may print, and blank lines
ConfigLinePool ==
    { <<>>,
      <<" ">>,
      <<"o", "1", TAB, "core.hookspath", "=", "h">>,
      <<" ", "o", "2", TAB, " ", "core.hooksPath", " ", "=", " ", "h", " ">>,
      <<"o", "3", " ", " ", "CORE.HOOKSPATH", "=", "h", "2">>,
      <<"o", "1", TAB, "user.name", "=", "n">>,
      <<"o", "1", TAB, "core.hookspath", "=">>,
      <<"o", "1", TAB, "core.hookspath">>,
      <<"o", "1", TAB, "=", "h">>,
      <<"core.hookspath", "=", "h">>,
      <<"o", " ", "d", TAB, "core.hookspath", "=", "a", " ", "b">>,
      <<"o", " ", TAB, "core.hooksPath", "=", "a", "=", "b">>,
      <<"o", "=", "1", " ", "core.hookspath", "=", "h">>,
      <<"o", "1", " ", "x", "core.hookspath", "=", "h">> }

\* the outputs of up to MaxConfigLines lines, each ended by a line break
ConfigOutputs ==
    {Join(lines, <<NL>>) \o (IF lines = <<>> THEN <<>> ELSE <<NL>>) :
        lines \in UNION {[1..n -> ConfigLinePool] : n \in 0..MaxConfigLines}}

\* git.py:125: return parse_hooks_path_entries(output)
ApplyParseHooksPathEntries ==
    /\ fn = "parse_hooks_path_entries"
    /\ ~applied
    /\ result' = parse_hooks_path_entries(args[1])
    /\ applied' = TRUE
    /\ UNCHANGED <<fn, args>>
    /\ UNCHANGED <<diffVars, logVars, collectVars>>

\* the longest exclusion list handed to _format_excluded_files
MaxExcluded == 52

\* the record of the i-th file: every second one a lock file
ExcludedRecord(i) ==
    <<<<"f">> \o DecimalStr(i),
      IF i % 2 = 0 THEN LockReason ELSE BudgetReason(i)>>

\* exclusion lists of 0..MaxExcluded records, discovered in ascending or in
\* descending order of the file number
ExcludedLists ==
    {[i \in 1..n |-> ExcludedRecord(i)] : n \in 0..MaxExcluded}
    \cup {[i \in 1..n |-> ExcludedRecord(n + 1 - i)] : n \in 0..MaxExcluded}

\* an optional value (str | None, Path | None): the empty set for None, the
\* singleton of the value otherwise
Absent == {}

Some(value) == {value}

\* Python truth of an optional string: neither None nor empty
Truthy(optional) == \E text \in optional : text # <<>>

\* codex_client.py:25-35: what codex_status() reports
CodexStatus(codex_path, npx_path, auth_exists) ==
    [codex_path |-> codex_path, npx_path |-> npx_path,
     auth_exists |-> auth_exists]

\* codex_client.py:38-42
is_codex_available(status) ==
    IF ~status.auth_exists THEN FALSE
    ELSE status.codex_path # Absent \/ status.npx_path # Absent

\* raise UserError(message)
UserError(message) == [raised |-> "UserError", message |-> message]

\* the messages, by their first sentence
NotInstalledMessage == "Codex is not installed."

AuthNotFoundMessage == "Codex auth not found."

UnavailableMessage == "OPENAI_API_KEY is not set and Codex is not available."

\* the value of a call that returns normally
Returns(value) == [raised |-> "", value |-> value]

\* a variant that never looks at the auth file
ensure_codex_available_no_auth(status) ==
    IF status.codex_path = Absent /\ status.npx_path = Absent
    THEN UserError(NotInstalledMessage)
    ELSE Returns(<<>>)

\* core.py:203-215
ensure_codex_available(status) ==
    IF status.codex_path = Absent /\ status.npx_path = Absent
    THEN UserError(NotInstalledMessage)
    ELSE IF ~status.auth_exists
    THEN UserError(AuthNotFoundMessage)
    ELSE Returns(<<>>)

\* core.py:159-168
select_backend(prefer_codex, api_key, status) ==
    IF prefer_codex
    THEN IF ensure_codex_available(status).raised # ""
         THEN ensure_codex_available(status)
         ELSE Returns("codex")
    ELSE IF Truthy(api_key) THEN Returns("openai")
    ELSE IF is_codex_available(status) THEN Returns("codex")
    ELSE UserError(UnavailableMessage)

\* core.py:171-193: returns (mode, reason); reason is the empty set for None
describe_auth_mode(prefer_codex, api_key, status) ==
    IF prefer_codex
    THEN IF status.codex_path = Absent /\ status.npx_path = Absent
         THEN <<"error", Some(NotInstalledMessage)>>
         ELSE IF ~status.auth_exists
         THEN <<"error", Some(AuthNotFoundMessage)>>
         ELSE <<"codex", Absent>>
    ELSE IF Truthy(api_key) THEN <<"openai", Absent>>
    ELSE IF is_codex_available(status) THEN <<"codex", Absent>>
    ELSE <<"error", Some(UnavailableMessage)>>

\* os.getenv("OPENAI_API_KEY"): unset, set to the empty string, set
ApiKeys == {Absent, Some(<<>>), Some(<<"k">>)}

\* shutil.which(...): not found, or the path found
WhichResults == {Absent, Some(<<"p">>)}

AuthInputs ==
    {<<prefer_codex, api_key, CodexStatus(codex_path, npx_path, auth_exists)>> :
        prefer_codex \in BOOLEAN, api_key \in ApiKeys,
        codex_path \in WhichResults, npx_path \in WhichResults,
        auth_exists \in BOOLEAN}

\* cli.py:150 and cli.py:400: both functions evaluated in one environment;
\* result is <<what select_backend does, what describe_auth_mode returns>>
ApplyAuthMode ==
    /\ fn = "auth_mode"
    /\ ~applied
    /\ result' = <<select_backend(args[1], args[2], args[3]),
                   describe_auth_mode(args[1], args[2], args[3])>>
    /\ applied' = TRUE
    /\ UNCHANGED <<fn, args>>
    /\ UNCHANGED <<diffVars, logVars, collectVars>>

\* core.py:321: excluded_text = _format_excluded_files(excluded)
ApplyFormatExcludedFiles ==
    /\ fn = "format_excluded_files"
    /\ ~applied
    /\ result' = format_excluded_files(args[1])
    /\ applied' = TRUE
    /\ UNCHANGED <<fn, args>>
    /\ UNCHANGED <<diffVars, logVars, collectVars>>

\* core.py:229: text = _truncate_bytes(text, max_bytes)
ApplyTruncateBytes ==
    /\ fn = "truncate_bytes"
    /\ ~applied
    /\ result' = truncate_bytes(args[1], args[2])
    /\ applied' = TRUE
    /\ UNCHANGED <<fn, args>>
    /\ UNCHANGED <<diffVars, logVars, collectVars>>

\* git.py:252: log_paths = _select_log_paths(staged_files, max_paths,
\* changed_lines)
ApplySelectLogPaths ==
    /\ fn = "select_log_paths"
    /\ ~applied
    /\ result' = select_log_paths(args[1], args[2], args[3])
    /\ applied' = TRUE
    /\ UNCHANGED <<fn, args>>
    /\ UNCHANGED <<diffVars, logVars, collectVars>>

FuncInit ==
    /\ \/ fn = "truncate_bytes" /\ args \in TruncateBytesInputs
       \/ fn = "select_log_paths" /\ args \in SelectLogPathsInputs
       \/ fn = "parse_hooks_path_entries"
          /\ args \in {<<output>> : output \in ConfigOutputs}
       \/ fn = "format_excluded_files"
          /\ args \in {<<excl>> : excl \in ExcludedLists}
       \/ fn = "auth_mode" /\ args \in AuthInputs
    /\ result = <<>>
    /\ applied = FALSE
    /\ DiffIdle
    /\ LogIdle
    /\ CollectIdle

FuncNext ==
    \/ ApplyTruncateBytes \/ ApplySelectLogPaths \/ ApplyParseHooksPathEntries
    \/ ApplyFormatExcludedFiles \/ ApplyAuthMode

FuncSpec == FuncInit /\ [][FuncNext]_vars

-----------------------------------------------------------------------------
(* Properties of the pure helpers                                          *)

\* C11: for every text and every max_bytes > 0 the output of _truncate_bytes
\* is a prefix of the input, its UTF-8 encoding is at most max_bytes long
\* and is the input's encoding cut at a character boundary: the byte after
\* the cut, if any, is not a continuation byte.
C11_ClampKeepsWholeCharacters ==
    (fn = "truncate_bytes" /\ applied) =>
        LET encoded == Encode(args[1])
            out == Encode(result)
        IN  /\ IsPrefixOf(result, args[1])
            /\ Len(out) <= args[2]
            /\ IsPrefixOf(out, encoded)
            /\ Len(out) < Len(encoded) => ~IsContinuation(encoded[Len(out) + 1])

\* the first max_bytes bytes end inside a multi-byte character and some
\* text is left after the clamp
C11_Witness ==
    /\ fn = "truncate_bytes"
    /\ applied
    /\ Utf8Len(args[1]) > args[2]
    /\ IsContinuation(Encode(args[1])[args[2] + 1])
    /\ result # <<>>
    /\ result # args[1]

\* C28: when the byte clamp fires (the encoding is longer than max_bytes),
\* the output of _truncate_bytes is the longest prefix of whole characters
\* of the input whose UTF-8 length is at most max_bytes; a multi-byte
\* character that ends exactly at byte max_bytes is kept.
C28_ClampKeepsLongestWholePrefix ==
    (fn = "truncate_bytes" /\ applied /\ Utf8Len(args[1]) > args[2]) =>
        LET fits == {k \in 0..Len(args[1]) :
                        Utf8Len(SubSeq(args[1], 1, k)) <= args[2]}
            longest == CHOOSE k \in fits : \A j \in fits : j <= k
        IN  result = SubSeq(args[1], 1, longest)

\* C30: for every combination of prefer_codex, API key, codex binary, npx
\* and codex auth file, describe_auth_mode reports mode "error" exactly when
\* select_backend raises a UserError, with the same message, and otherwise
\* reports the backend ("codex" or "openai") that select_backend returns.
C30_AuthModeAgreesWithBackend ==
    (fn = "auth_mode" /\ applied) =>
        LET backend == result[1]
            mode == result[2][1]
            reason == result[2][2]
        IN  /\ mode = "error" <=> backend.raised = "UserError"
            /\ mode = "error" => reason = Some(backend.message)
            /\ mode # "error" =>
                  /\ mode \in {"codex", "openai"}
                  /\ backend = Returns(mode)
                  /\ reason = Absent

\* codex is preferred and installed but not signed in, while an API key is
\* set: both functions refuse instead of falling back to openai
C30_Witness ==
    /\ fn = "auth_mode"
    /\ applied
    /\ args[1]
    /\ Truthy(args[2])
    /\ args[3].codex_path # Absent
    /\ ~args[3].auth_exists
    /\ result[1] = UserError(AuthNotFoundMessage)
    /\ result[2] = <<"error", Some(AuthNotFoundMessage)>>

\* the longest sequence of leading path segments that all the files share
LongestCommonSegments(files) ==
    LET segments(i) == SelectSeq(Split(files[i], "/"), LAMBDA part : part # <<>>)
        shared == {n \in 0..Len(segments(1)) :
                      \A i \in 1..Len(files) :
                          /\ n <= Len(segments(i))
                          /\ SubSeq(segments(i), 1, n) = SubSeq(segments(1), 1, n)}
    IN  SubSeq(segments(1), 1, CHOOSE n \in shared : \A m \in shared : m <= n)

\* C14: when the paths share a non-empty prefix of whole segments the
\* selector returns exactly one scope, the longest such prefix joined with
\* "/" and without a trailing slash; for a single path that is the path
\* itself; a scope that is not this prefix is returned only when the prefix
\* is empty.
C14_PrimaryScopeIsLongestPrefix ==
    (fn = "select_log_paths" /\ applied) =>
        LET longest == LongestCommonSegments(args[1])
        IN  /\ longest # <<>> =>
                  /\ result = <<Join(longest, <<"/">>)>>
                  /\ result[1][Len(result[1])] # "/"
            /\ Len(args[1]) = 1 => result = <<args[1][1]>>
            /\ result # <<Join(longest, <<"/">>)>> => longest = <<>>

\* two different files under s/a: the scope is the two-segment prefix
C14_Witness ==
    /\ fn = "select_log_paths"
    /\ applied
    /\ Len(args[1]) >= 2
    /\ Len(LongestCommonSegments(args[1])) = 2
    /\ result = << <<"s", "/", "a">> >>

\* the (origin, value) pairs the line stands for: the trimmed line splits at
\* its first tab, or without a tab at its first run of blanks, into an
\* origin and a rest; the rest splits at its first "=" into a key that is
\* core.hookspath in some letter case and a non-empty value
HooksPairsOfLine(raw_line) ==
    LET line == Strip(raw_line)
        hasTab == \E i \in 1..Len(line) : line[i] = TAB
        isSep(i) == IF hasTab THEN line[i] = TAB ELSE line[i] \in {" ", TAB}
        seps == {i \in 1..Len(line) : isSep(i) /\ \A j \in 1..(i - 1) : ~isSep(j)}
        rest(i) == Strip(SubSeq(line, i + 1, Len(line)))
        keyAt(i) == {e \in 1..Len(rest(i)) :
                        /\ rest(i)[e] = "="
                        /\ \A j \in 1..(e - 1) : rest(i)[j] # "="
                        /\ Strip(SubSeq(rest(i), 1, e - 1))
                              \in { <<"core.hookspath">>, <<"core.hooksPath">>,
                                    <<"CORE.HOOKSPATH">> }
                        /\ Strip(SubSeq(rest(i), e + 1, Len(rest(i)))) # <<>>}
    IN  UNION {{<<SubSeq(line, 1, i - 1),
                  Strip(SubSeq(rest(i), e + 1, Len(rest(i))))>> : e \in keyAt(i)} :
               i \in seps}

\* C17: parse_hooks_path_entries returns, in input order, exactly one
\* (origin, value) entry for each line that stands for such a pair, and
\* nothing for every other line.
C17_HooksEntriesExactlyMatchingLines ==
    (fn = "parse_hooks_path_entries" /\ applied) =>
        LET lines == SplitLines(args[1])
            hits == SelectSeq([i \in 1..Len(lines) |-> i],
                              LAMBDA i : HooksPairsOfLine(lines[i]) # {})
        IN  /\ Len(result) = Len(hits)
            /\ \A j \in 1..Len(hits) :
                  HooksPairsOfLine(lines[hits[j]])
                      = {<<result[j].origin, result[j].path>>}

\* two entries from one output, the first from a line that spells the key
\* in mixed case, with a line for another key in the pool
C17_Witness ==
    /\ fn = "parse_hooks_path_entries"
    /\ applied
    /\ Len(result) = 2
    /\ result[1] = [origin |-> <<"o", "2">>, path |-> <<"h">>]
    /\ result[2].origin # result[1].origin

\* C22: when the paths share no segment prefix the selector returns the
\* group (a top-level file itself, else the parent directory of a file)
\* with the highest total of changed lines; among equal totals the group
\* of the shallowest depth, and among those the smallest in string order.
C22_BestGroupShallowestFirst ==
    (/\ fn = "select_log_paths"
     /\ applied
     /\ LongestCommonSegments(args[1]) = <<>>) =>
        LET files == args[1]
            segments(path) == SelectSeq(Split(path, "/"), LAMBDA part : part # <<>>)
            group(file) ==
                IF Len(segments(file)) = 1 THEN file
                ELSE Join(SubSeq(segments(file), 1, Len(segments(file)) - 1),
                          <<"/">>)
            groups == {group(files[i]) : i \in 1..Len(files)}
            count(file) == IF file \in DOMAIN args[3] THEN args[3][file] ELSE 0
            total(g) == SumSeq([i \in 1..Len(files) |->
                                   IF group(files[i]) = g
                                   THEN count(files[i]) ELSE 0])
            better(g, h) ==
                \/ total(g) > total(h)
                \/ total(g) = total(h) /\ Len(segments(g)) < Len(segments(h))
                \/ /\ total(g) = total(h)
                   /\ Len(segments(g)) = Len(segments(h))
                   /\ StrLess(g, h)
        IN  /\ Len(result) = 1
            /\ result[1] \in groups
            /\ \A h \in groups \ {result[1]} : better(result[1], h)

\* C26: for n exclusions the report has one header line, then one line
\* "- path (reason)" for each of the first min(n, 50) records in list
\* order, then one line "- ... and K more" with K = n - 50 exactly when
\* n > 50.
C26_ReportOrderedAndBounded ==
    (fn = "format_excluded_files" /\ applied) =>
        LET n == Len(args[1])
            shown == IF n < 50 THEN n ELSE 50
            lines == Split(result, NL)
        IN  /\ Len(lines) = 1 + shown + (IF n > 50 THEN 1 ELSE 0)
            /\ lines[1] = <<"E", "x", "c", "l", "u", "d", "e", "d", " ", "f", "i", "l", "e", "s", " ", "f", "r", "o", "m", " ", "d", "i", "f", "f", " ", "c", "o", "n", "t", "e", "x", "t", ":">>
            /\ \A i \in 1..shown :
                  lines[i + 1] = <<"-", " ">> \o args[1][i][1] \o <<" ", "(">>
                                 \o args[1][i][2] \o <<")">>
            /\ n > 50 =>
                  lines[Len(lines)] =
                      <<"-", " ", ".", ".", ".", " ", "a", "n", "d", " ">>
                      \o DecimalStr(n - 50) \o <<" ", "m", "o", "r", "e">>

\* 52 exclusions, discovered in descending order of the file number
C26_Witness ==
    /\ fn = "format_excluded_files"
    /\ applied
    /\ Len(args[1]) = 52
    /\ args[1][1][1] = <<"f", "5", "2">>
    /\ Len(Split(result, NL)) = 52

-----------------------------------------------------------------------------
(* Properties of the packing loop of _build_filtered_diff                  *)

\* C15: the token estimate added for every accepted patch is
\* ceil(utf8ByteLength / 4) of the patch text, so used_tokens is the sum of
\* that estimate over the accepted patches.
C15_TokensFromUtf8Bytes ==
    used_tokens =
        SumSeq([i \in 1..Len(diff_chunks) |->
                   (Utf8Len(diff_chunks[i]) + 3) \div 4])

\* C18: a step of the packing loop that fetched a non-empty patch moves on
\* to the next candidate whatever it decides; it accepts the patch exactly
\* when the lines, bytes and estimated tokens of the patches accepted so
\* far plus its own exceed none of the positive caps, and records a budget
\* exclusion otherwise.
C18_RejectionDoesNotStopScan ==
    [][(pc = "pack" /\ queue # <<>> /\ Strip(patch') # <<>>) =>
          LET entry == Head(queue)
              lines == SumSeq([i \in 1..Len(diff_chunks) |->
                                  LineCount(diff_chunks[i])]) + LineCount(patch')
              bytes == SumSeq([i \in 1..Len(diff_chunks) |->
                                  Utf8Len(diff_chunks[i])]) + Utf8Len(patch')
              tokens == SumSeq([i \in 1..Len(diff_chunks) |->
                                   estimate_tokens(diff_chunks[i])])
                        + estimate_tokens(patch')
              fits ==
                  /\ config.max_patch_lines > 0 => lines <= config.max_patch_lines
                  /\ config.max_diff_bytes > 0 => bytes <= config.max_diff_bytes
                  /\ config.max_diff_bytes > 0 =>
                        tokens <= (config.max_diff_bytes + 3) \div 4
          IN  /\ pc' = "pack"
              /\ queue' = Tail(queue)
              /\ IF fits
                 THEN /\ accepted' = Append(accepted, entry.path)
                      /\ diff_chunks' = Append(diff_chunks, patch')
                      /\ excluded' = excluded
                 ELSE /\ accepted' = accepted
                      /\ diff_chunks' = diff_chunks
                      /\ Len(excluded') = Len(excluded) + 1
                      /\ excluded'[Len(excluded')][1] = entry.path
                      /\ IsPrefixOf(BudgetPrefix, excluded'[Len(excluded')][2])]_vars

\* a candidate was accepted after an earlier one in allocator order had
\* been rejected for the budget
C18_Witness ==
    /\ pc = "pack"
    /\ \E i, j \in 1..Len(candidates) :
          /\ ChangedLines(candidates[i]) > ChangedLines(candidates[j])
          /\ HasReasonPrefix(candidates[i].path, BudgetPrefix)
          /\ candidates[j].path \in AcceptedPaths

\* C19: the candidates are attempted by descending added+deleted, ties by
\* ascending path, whatever the order of the inventory: the candidates
\* still to come are in that order and after every attempted one, the
\* accepted paths and the budget exclusions are each in that order, and the
\* assembled diff text starts with the accepted patches in that order.
C19_AllocatorOrder ==
    Filtered =>
        LET weight(e) == (IF e.added = None THEN 0 ELSE e.added)
                         + (IF e.deleted = None THEN 0 ELSE e.deleted)
            before(a, b) ==
                \/ weight(a) > weight(b)
                \/ weight(a) = weight(b) /\ StrLess(a.path, b.path)
            entryOf(path) == CHOOSE e \in Range(entries) : e.path = path
            budget == SelectSeq(excluded,
                                LAMBDA r : IsPrefixOf(BudgetPrefix, r[2]))
            attempted == AcceptedPaths \cup skipped
                         \cup {budget[i][1] : i \in 1..Len(budget)}
        IN  /\ \A i, j \in 1..Len(queue) : i < j => before(queue[i], queue[j])
            /\ \A path \in attempted : \A k \in 1..Len(queue) :
                  before(entryOf(path), queue[k])
            /\ \A i, j \in 1..Len(accepted) :
                  i < j => before(entryOf(accepted[i]), entryOf(accepted[j]))
            /\ \A i, j \in 1..Len(budget) :
                  i < j => before(entryOf(budget[i][1]), entryOf(budget[j][1]))
            /\ Len(diff_chunks) = Len(accepted)
            /\ Returned =>
                  IsPrefixOf(Strip(Join(diff_chunks, <<NL, NL>>)), assembled)

\* two candidates with equal added+deleted were accepted in path order
\* although the inventory lists them the other way round
C19_Witness ==
    /\ Returned
    /\ \E i, j \in 1..Len(entries) : \E m, n \in 1..Len(accepted) :
          /\ i < j
          /\ ChangedLines(entries[i]) = ChangedLines(entries[j])
          /\ accepted[m] = entries[i].path
          /\ accepted[n] = entries[j].path
          /\ n < m

\* C20: a step of the packing loop whose fetched patch is empty after
\* trimming leaves the accepted patches, the three counters, the exclusion
\* list and diff_was_filtered as they were.
C20_EmptyPatchIsNoOp ==
    [][(pc = "pack" /\ queue # <<>> /\ Strip(patch') = <<>>) =>
          /\ diff_chunks' = diff_chunks
          /\ accepted' = accepted
          /\ used_lines' = used_lines
          /\ used_bytes' = used_bytes
          /\ used_tokens' = used_tokens
          /\ excluded' = excluded
          /\ diff_was_filtered' = diff_was_filtered]_vars

\* the loop has just skipped a patch of blanks, after accepting one patch
\* and excluding another
C20_Witness ==
    /\ pc = "pack"
    /\ patch = <<" ">>
    /\ skipped # {}
    /\ used_lines > 0
    /\ diff_was_filtered
    /\ excluded # <<>>

\* C21: a cap of 0 or less switches its dimension off.  With
\* max_patch_lines <= 0 there is no large-diff exclusion and the returned
\* text is the assembled text, cut by the byte clamp alone if at all; with
\* max_diff_bytes <= 0 it is cut by the line clamp alone if at all; with
\* both, diff_was_truncated is
\* false, only lock files and binaries are excluded and every other file
\* with a non-empty patch is accepted.  A step that records a budget
\* exclusion has found a positive cap exceeded: lines only if
\* max_patch_lines > 0, bytes or estimated tokens only if max_diff_bytes > 0.
C21_NonPositiveCapDisablesDimension ==
    /\ [](/\ config.max_patch_lines <= 0 =>
                /\ ~large_diff
                /\ \A p \in ExcludedPaths : ~HasReasonPrefix(p, LargePrefix)
                /\ Returned =>
                      /\ diff_truncated =>
                            /\ config.max_diff_bytes > 0
                            /\ Utf8Len(assembled) > config.max_diff_bytes
                            /\ IsPrefixOf(diff_text, assembled)
                            /\ Utf8Len(diff_text) > config.max_diff_bytes - 4
                      /\ ~diff_truncated => diff_text = assembled
          /\ (config.max_diff_bytes <= 0 /\ Returned) =>
                    /\ diff_truncated => diff_text # assembled
                    /\ diff_truncated =>
                          LineCount(assembled) > config.max_patch_lines
                    /\ ~diff_truncated => diff_text = assembled
          /\ (config.max_patch_lines <= 0 /\ config.max_diff_bytes <= 0) =>
                /\ \A p \in ExcludedPaths :
                      \/ <<p, LockReason>> \in Range(excluded)
                      \/ <<p, BinaryReason>> \in Range(excluded)
                /\ Returned =>
                      /\ ~diff_truncated
                      /\ diff_text = assembled
                      /\ \A i \in 1..Len(entries) :
                            \/ is_hard_excluded(entries[i].path)
                            \/ entries[i].is_binary
                            \/ entries[i].path \in AcceptedPaths
                            \/ entries[i].path \in skipped)
    /\ [][(pc = "pack" /\ Len(excluded') > Len(excluded)) =>
             \/ /\ config.max_patch_lines > 0
                /\ used_lines + LineCount(patch') > config.max_patch_lines
             \/ /\ config.max_diff_bytes > 0
                /\ \/ used_bytes + Utf8Len(patch') > config.max_diff_bytes
                   \/ used_tokens + estimate_tokens(patch')
                          > (config.max_diff_bytes + 3) \div 4]_vars

\* both caps are off, one of them below zero: two patches were accepted,
\* one of a file of 200 changed lines or more
C21_Witness ==
    /\ Returned
    /\ config.max_patch_lines < 0
    /\ config.max_diff_bytes < 0
    /\ Len(accepted) >= 2
    /\ \E i \in 1..Len(entries) :
          ChangedLines(entries[i]) >= 200 /\ entries[i].path \in AcceptedPaths
    /\ excluded # <<>>
    /\ LineCount(assembled) > 3


\* C27: when the packing branch returns with no file excluded, the final
\* truncation pass has not fired: the accepted patches joined with
\* blank-line separators have at most max_patch_lines lines and at most
\* max_diff_bytes bytes (for a positive cap), diff_truncated is false and
\* every accepted patch is present in full in the returned diff text.
C27_NoExclusionNoTruncation ==
    (Returned /\ entries # <<>> /\ excluded = <<>>) =>
        /\ config.max_patch_lines > 0 =>
               LineCount(assembled) <= config.max_patch_lines
        /\ config.max_diff_bytes > 0 =>
               Utf8Len(assembled) <= config.max_diff_bytes
        /\ ~diff_truncated
        /\ \A i \in 1..Len(diff_chunks) : Contains(diff_text, diff_chunks[i])

=============================================================================
